---- MODULE Spec2Model ----
(***************************************************************************)
(* A model of fetsig's transfer-state driven fetch orchestration:          *)
(* StatusCode, TransferState, Messages, the fetch pipeline and the         *)
(* EntityStore / CollectionStore operations built on them.                 *)
(*                                                                         *)
(* Specifications:                                                         *)
(*   SpecTS  the TransferState machine driven by start_load / start_store  *)
(*           / stop under the documented protocol;                         *)
(*   Spec    one store (an EntityStore or a CollectionStore, chosen at     *)
(*           construction) with its asynchronous fetches in flight;        *)
(*   SpecMsg a Messages value under add / set / clear / replace /          *)
(*           clear_all;                                                    *)
(*   SpecFetch  one spawned fetch task on a store, from the awaited        *)
(*           network result to the final stop, step by step;               *)
(*   SpecLive   that task with its two suspension points, under fairness;  *)
(*   SpecCell   the TransferState cell and StatusCode used freely;         *)
(*   SpecSeq    an EntityStore used by a caller that never overlaps calls; *)
(*   SpecSend   one CollectionStore::store call and the request it sends;  *)
(*   SpecUpload one UploadStore used by a caller that never overlaps calls; *)
(*   SpecMerge  a Messages value obtained from a response or from its inner *)
(*           map, and merged with others by extend;                        *)
(*   SpecReq    a Request under its builder calls, and the headers it      *)
(*           sends;                                                        *)
(*   SpecMedia  MediaType and its textual form, converted both ways.       *)
(***************************************************************************)
EXTENDS Naturals, Sequences, FiniteSets, TLC

VARIABLES
    kind,          \* the object modelled: "entity", "collection", "machine", "cell",
                   \* "messages", "upload", "request" or "media_type"
    ts,            \* Mutable<TransferState>
    messages,      \* Messages of the store
    entity,        \* EntityStore.entity: None or an entity
    collection,    \* CollectionStore.collection: a sequence of entities
    paging,        \* CollectionStore.paging
    flights,       \* the spawned fetch tasks not yet completed, in start order
    ev,            \* history: the last operation and what it did
    prevLoad,      \* history: what became of the preceding load() call
    race,          \* history: how the fetches in flight overlap
    lastStart,     \* history: verb of the most recent start_load / start_store
    open,          \* history (SpecTS): verb of the start not yet followed by a stop
    completed,     \* history (SpecTS): the last start that was followed by a stop
    job,           \* (SpecFetch, SpecCell) the spawned fetch task / the step taken;
                   \* (SpecMerge, SpecReq, SpecMedia) the value under conversion
    loadedOnce     \* history (SpecSeq): a load completed with success since the store
                   \* was created or last invalidated / reset

vars == <<kind, ts, messages, entity, collection, paging, flights, ev, prevLoad,
          race, lastStart, open, completed, job, loadedOnce>>

(***************************************************************************)
(* Bounds of the model.                                                    *)
(***************************************************************************)
\* the largest number of messages in one category of a Messages value
MaxMessages == 2

\* the largest number of fetches in flight on the store at one time
MaxFlights == 2

None == "None"

(***************************************************************************)
(* StatusCode (src/interface/statuscode.rs)                                *)
(***************************************************************************)
StatusCode ==
    { "Undefined", "FetchFailed", "FetchTimeout", "DecodeFailed",
      "Ok", "Created", "NoContent", "NotModified",
      "BadRequest", "Unauthorized", "Forbidden", "NotFound", "MethodNotAllowed",
      "Conflict", "PayloadTooBig", "UnsupportedMediaType", "RateLimited",
      "InternalServerError", "NotImplemented" }

is_success_strict(status) == status = "Ok"

is_success(status) == status \in {"Ok", "Created", "NoContent", "NotModified"}

is_failure(status) == ~is_success(status)

(***************************************************************************)
(* TransferState (src/browser/transferstate.rs)                            *)
(***************************************************************************)
Empty == [v |-> "Empty", s |-> None]

PendingLoad == [v |-> "PendingLoad", s |-> None]

PendingStore == [v |-> "PendingStore", s |-> None]

Loaded(status) == [v |-> "Loaded", s |-> status]

Stored(status) == [v |-> "Stored", s |-> status]

TransferState ==
    {Empty, PendingLoad, PendingStore}
        \cup {Loaded(s) : s \in StatusCode} \cup {Stored(s) : s \in StatusCode}

pending(t) == t.v \in {"PendingLoad", "PendingStore"}

loaded_any(t) == t.v = "Loaded"

loaded(t) == t.v = "Loaded" /\ is_success(t.s)

loaded_status(t) == IF t.v = "Loaded" THEN t.s ELSE None

stored(t) == t.v = "Stored" /\ is_success(t.s)

stored_status(t) == IF t.v = "Stored" THEN t.s ELSE None

start_load_skipped(t) == t

start_load(t) == PendingLoad

start_store_as_load(t) == PendingLoad

start_store(t) == PendingStore

stop_pending_only(t, status) ==
    CASE t.v = "PendingLoad" -> Loaded(status)
      [] t.v = "PendingStore" -> Stored(status)
      [] OTHER -> Loaded("FetchFailed")

stop_keep(t, status) == t

stop(t, status) ==
    CASE t.v \in {"PendingLoad", "Loaded"} -> Loaded(status)
      [] t.v \in {"PendingStore", "Stored"} -> Stored(status)
      [] OTHER -> Loaded("FetchFailed")

reset_error_loaded_only(t) ==
    IF t.v = "Loaded" THEN Loaded("Ok") ELSE t

reset_error(t) ==
    CASE t.v = "Loaded" -> Loaded("Ok")
      [] t.v = "Stored" -> Stored("Ok")
      [] OTHER -> t

(***************************************************************************)
(* Messages (src/interface/messages.rs): the aggregated error flag and the *)
(* map from category key to the ordered messages of that category.         *)
(***************************************************************************)
SERVICE == "service"

ENTITY == "entity"

EmptyMap == [k \in {} |-> <<>>]

Message(message_type, text, parameters) ==
    [message_type |-> message_type, text |-> text, parameters |-> parameters]

MessageError(m) == m.message_type = "Error"

MessagesNew == [error |-> FALSE, messages |-> EmptyMap]

from_inner(inner) == [error |-> FALSE, messages |-> inner]

any_error(map) ==
    \E k \in DOMAIN map : \E i \in 1..Len(map[k]) : MessageError(map[k][i])

evaluate_error(self) == [self EXCEPT !.error = any_error(self.messages)]

replace_merge(self, with) ==
    evaluate_error([self EXCEPT !.messages = with.messages @@ self.messages])

replace(self, with) == evaluate_error([self EXCEPT !.messages = with.messages])

clear_all(self) == [error |-> FALSE, messages |-> EmptyMap]

add_with_pars_overwrite(self, key, message_type, text, parameters) ==
    [ error |-> self.error \/ message_type = "Error",
      messages |-> (key :> <<Message(message_type, text, parameters)>>) @@ self.messages ]

add_with_pars(self, key, message_type, text, parameters) ==
    LET message == Message(message_type, text, parameters)
        lock == IF key \in DOMAIN self.messages
                    THEN [self.messages EXCEPT ![key] = Append(@, message)]
                    ELSE (key :> <<message>>) @@ self.messages
    IN  [error |-> self.error \/ message_type = "Error", messages |-> lock]

set_with_pars(self, key, message_type, text, parameters) ==
    LET message == Message(message_type, text, parameters)
    IN  [ error |-> (message_type = "Error"),
          messages |-> (key :> <<message>>) @@ self.messages ]

clear(self, key) ==
    evaluate_error([self EXCEPT !.messages =
                        [k \in (DOMAIN self.messages) \ {key} |-> self.messages[k]]])

\* the keys of the model in the order of the BTreeMap (Ord of the key strings)
KeyOrder == <<ENTITY, SERVICE>>

\* Debug::fmt: the categories as the map enumerates them, each with its messages
fmt(self) ==
    LET present == SelectSeq(KeyOrder, LAMBDA k : k \in DOMAIN self.messages)
    IN  [i \in 1..Len(present) |->
            [key |-> present[i], messages |-> self.messages[present[i]]]]

from_service_error(text) == add_with_pars(MessagesNew, SERVICE, "Error", text, <<>>)

UnsupportedText == "Request failed as unsupported media type is requested"

(***************************************************************************)
(* Paging and the response envelopes (src/interface/transport.rs)          *)
(***************************************************************************)
PagingDefaultLimit == 25

PagingDefault == [limit |-> PagingDefaultLimit, prev |-> None, next |-> None]

EntityResponse(msgs, e) == [messages |-> msgs, entity |-> e]

CollectionResponse(msgs, pg, c) == [messages |-> msgs, paging |-> pg, collection |-> c]

(***************************************************************************)
(* MediaType (src/interface/mediatype.rs): the textual forms the pipeline  *)
(* dispatches on.                                                          *)
(***************************************************************************)
MediaTypeFrom(mime) ==
    CASE mime = "application/octet-stream" -> "ByteStream"
      [] mime = "application/cbor" -> "Cbor"
      [] mime = "text/css" -> "Css"
      [] mime = "application/x-www-form-urlencoded" -> "Form"
      [] mime = "multipart/form-data" -> "FormMultipart"
      [] mime = "text/html" -> "Html"
      [] mime = "image/x-icon" -> "Ico"
      [] mime = "application/javascript" -> "Javascript"
      [] mime = "image/jpeg" -> "Jpeg"
      [] mime = "application/json" -> "Json"
      [] mime = "application/pdf" -> "Pdf"
      [] mime = "image/png" -> "Png"
      [] mime = "application/x-postcard" -> "Postcard"
      [] mime = "image/pwg-raster" -> "Pwg"
      [] mime = "text/event-stream" -> "Sse"
      [] mime = "image/svg+xml" -> "Svg"
      [] mime = "image/urf" -> "Urf"
      [] mime = "application/wasm" -> "Wasm"
      [] mime = "application/xml" -> "Xml"
      [] mime = "application/vnd.openxmlformats-officedocument.spreadsheetml.sheet" -> "Xlsx"
      [] mime = "application/zip" -> "Zip"
      [] mime = "application/x-zip-compressed" -> "Zip"
      [] mime = "application/x-7z-compressed" -> "Zip7"
      [] OTHER -> "ByteStream"

\* the codecs compiled in (features "json" and "postcard")
StructuredMediaTypes == {"Json", "Postcard"}

(***************************************************************************)
(* The fetch pipeline (src/browser/common.rs).  A raw network result is    *)
(*   [net, type, code, content_type, body, verify]                         *)
(* net: "timeout" (the timeout fired first), "start_failed" (the promise   *)
(* rejected) or "response"; type: the ResponseType; code: the numeric      *)
(* status; content_type: the header text or None; body: "empty",           *)
(* "unreadable" or [format, payload]; verify: the MacVerify verdict.       *)
(* A DecodedResponse is [status, response, calls, aborts]; calls records   *)
(* which capabilities ran, aborts how often Abort::abort was triggered.    *)
(***************************************************************************)
from_u16(code) ==
    CASE code = 200 -> "Ok"
      [] code = 201 -> "Created"
      [] code = 204 -> "NoContent"
      [] code = 304 -> "NotModified"
      [] code = 400 -> "BadRequest"
      [] code = 401 -> "Unauthorized"
      [] code = 403 -> "Forbidden"
      [] code = 404 -> "NotFound"
      [] code = 405 -> "MethodNotAllowed"
      [] code = 409 -> "Conflict"
      [] code = 413 -> "PayloadTooBig"
      [] code = 415 -> "UnsupportedMediaType"
      [] code = 429 -> "RateLimited"
      [] code = 500 -> "InternalServerError"
      [] code = 501 -> "NotImplemented"
      [] code = 901 -> "FetchFailed"
      [] code = 902 -> "FetchTimeout"
      [] code = 903 -> "DecodeFailed"
      [] OTHER -> "Undefined"

\* Option<T> of a structured value: <<>> is None, <<x>> is Some(x)
Nothing == <<>>

Some(x) == <<x>>

DecodedResponse(status, response, calls, aborts) ==
    [status |-> status, response |-> response, calls |-> calls, aborts |-> aborts]

\* Response.ok of the fetch API: a status in 200..299
response_ok(raw) == raw.code >= 200 /\ raw.code <= 299

wait_completion_no_abort(raw) ==
    CASE raw.net = "timeout" -> DecodedResponse("FetchTimeout", Nothing, {}, 0)
      [] raw.net = "start_failed" -> DecodedResponse("FetchFailed", Nothing, {}, 0)
      [] OTHER ->
            IF ~response_ok(raw) /\ raw.type = "error"
                THEN DecodedResponse("FetchFailed", Nothing, {}, 0)
                ELSE DecodedResponse(from_u16(raw.code), Some(raw), {}, 0)

wait_completion(raw) ==
    CASE raw.net = "timeout" -> DecodedResponse("FetchTimeout", Nothing, {}, 1)
      [] raw.net = "start_failed" -> DecodedResponse("FetchFailed", Nothing, {}, 0)
      [] OTHER ->
            IF ~response_ok(raw) /\ raw.type = "error"
                THEN DecodedResponse("FetchFailed", Nothing, {}, 0)
                ELSE DecodedResponse(from_u16(raw.code), Some(raw), {}, 0)

cast_failure(fetched) ==
    DecodedResponse(fetched.status, Nothing, fetched.calls, fetched.aborts)

\* try_from_json / try_from_postcard on the body bytes: the parsed envelope, or
\* Nothing when the bytes are not a document of that codec
deserialize(media_type, content) ==
    IF content.format = media_type THEN content.payload ELSE Nothing

decode_content_deserialize_first(media_type, decode_base64, content, verify) ==
    IF media_type \notin StructuredMediaTypes
        THEN DecodedResponse("UnsupportedMediaType", Nothing, {}, 0)
    ELSE IF content.format = "empty"
        THEN DecodedResponse("Ok", Nothing, {}, 0)
    ELSE IF decode_base64 /\ ~content.base64
        THEN DecodedResponse("DecodeFailed", Nothing, {}, 0)
    ELSE IF deserialize(media_type, content) = Nothing
        THEN DecodedResponse("DecodeFailed", Nothing, {"deserialize"}, 0)
    ELSE IF verify # "valid"
        THEN DecodedResponse("DecodeFailed", Nothing, {"verify", "deserialize"}, 0)
    ELSE DecodedResponse("Ok", deserialize(media_type, content), {"verify", "deserialize"}, 0)

decode_content_empty_first(media_type, decode_base64, content, verify) ==
    IF content.format = "empty"
        THEN DecodedResponse("Ok", Nothing, {}, 0)
    ELSE IF media_type \notin StructuredMediaTypes
        THEN DecodedResponse("UnsupportedMediaType", Nothing, {}, 0)
    ELSE IF decode_base64 /\ ~content.base64
        THEN DecodedResponse("DecodeFailed", Nothing, {}, 0)
    ELSE IF verify # "valid"
        THEN DecodedResponse("DecodeFailed", Nothing, {"verify"}, 0)
    ELSE IF deserialize(media_type, content) = Nothing
        THEN DecodedResponse("DecodeFailed", Nothing, {"verify", "deserialize"}, 0)
    ELSE DecodedResponse("Ok", deserialize(media_type, content), {"verify", "deserialize"}, 0)

decode_content(media_type, decode_base64, content, verify) ==
    IF media_type \notin StructuredMediaTypes
        THEN DecodedResponse("UnsupportedMediaType", Nothing, {}, 0)
    ELSE IF content.format = "empty"
        THEN DecodedResponse("Ok", Nothing, {}, 0)
    ELSE IF decode_base64 /\ ~content.base64
        THEN DecodedResponse("DecodeFailed", Nothing, {}, 0)
    ELSE IF verify # "valid"
        THEN DecodedResponse("DecodeFailed", Nothing, {"verify"}, 0)
    ELSE IF deserialize(media_type, content) = Nothing
        THEN DecodedResponse("DecodeFailed", Nothing, {"verify", "deserialize"}, 0)
    ELSE DecodedResponse("Ok", deserialize(media_type, content), {"verify", "deserialize"}, 0)

decode_response(status, response) ==
    LET media_type == IF response.content_type = None
                          THEN "Plain"
                          ELSE MediaTypeFrom(response.content_type)
    IN  IF response.body.format = "unreadable"
            THEN DecodedResponse("DecodeFailed", Nothing, {"headers", "body"}, 0)
            ELSE LET decoded == decode_content(media_type, FALSE, response.body, response.verify)
                     calls == decoded.calls \cup {"headers", "body"}
                 IN  IF decoded.status = "Ok"
                        THEN DecodedResponse(status, decoded.response, calls, 0)
                        ELSE DecodedResponse(decoded.status, Nothing, calls, 0)

DecodableStatuses_wide ==
    { "Ok", "Created", "NoContent", "BadRequest", "Forbidden", "InternalServerError",
      "NotFound", "PayloadTooBig", "RateLimited", "Unauthorized", "Conflict" }

DecodableStatuses ==
    { "Ok", "Created", "NoContent", "BadRequest", "Forbidden", "InternalServerError",
      "NotFound", "PayloadTooBig", "RateLimited", "Unauthorized" }

execute_fetch(raw) ==
    LET fetched == wait_completion(raw)
    IN  IF fetched.response = Nothing
            THEN cast_failure(fetched)
        ELSE IF fetched.status \in DecodableStatuses
            THEN decode_response(fetched.status, fetched.response[1])
        ELSE cast_failure(fetched)

(***************************************************************************)
(* Inputs of the store model: the requests a caller can build              *)
(* (src/browser/request.rs) and the results the network can deliver.       *)
(***************************************************************************)
Entities == {"e1", "e2"}

\* Request: the fields the stores read.  start_ok is the result of
\* Request::start (header / abort-controller construction can fail).
Requests ==
    [ media_type : {None, "Json", "Postcard", "Plain"},
      wants_response : BOOLEAN,
      is_load : BOOLEAN,
      start_ok : BOOLEAN ]

with_is_load_ignored(request, is_load) == request

with_is_load(request, is_load) == [request EXCEPT !.is_load = is_load]

ResponseMessages ==
    { EmptyMap, (ENTITY :> <<Message("Error", "invalid", <<>>)>>) }

PagingNext == [limit |-> 10, prev |-> None, next |-> "n1"]

EntityPayloads ==
    { EntityResponse(m, e) : m \in ResponseMessages, e \in {None} \cup Entities }

CollectionPayloads ==
    { CollectionResponse(m, pg, c) :
        m \in ResponseMessages,
        pg \in {PagingDefault, PagingNext},
        c \in {Nothing, Some(<<"e2", "e1">>), Some(<<>>)} }

Body(format, payload) == [format |-> format, payload |-> payload, base64 |-> FALSE]

RawResponse(code, content_type, body, verify) ==
    [ net |-> "response", type |-> "basic", code |-> code,
      content_type |-> content_type, body |-> body, verify |-> verify ]

NoBody == Body("empty", Nothing)

\* the raw network results the store model draws from
NetResults(payloads) ==
    { [RawResponse(0, None, NoBody, "valid") EXCEPT !.net = n] : n \in {"timeout", "start_failed"} }
    \cup { [RawResponse(0, None, NoBody, "valid") EXCEPT !.type = "error"] }
    \cup { RawResponse(c, "application/json", NoBody, "valid") : c \in {200, 304, 400, 409} }
    \cup { RawResponse(c, "application/json", Body("Json", Some(pl)), "valid") :
             c \in {200, 400}, pl \in payloads }
    \cup { RawResponse(200, "application/json", Body("Json", Some(pl)), "invalid") :
             pl \in payloads }
    \cup { RawResponse(200, "application/json", Body("Json", Nothing), "valid") }
    \cup { RawResponse(200, "text/plain", Body("Json", Some(pl)), "valid") : pl \in payloads }

EntityOutcomes == { execute_fetch(raw) : raw \in NetResults(EntityPayloads) }

CollectionOutcomes == { execute_fetch(raw) : raw \in NetResults(CollectionPayloads) }

(***************************************************************************)
(* What a synchronous store operation did: the TransferState and Messages  *)
(* it leaves, the task it spawned (Nothing or Some(flight)), the statuses  *)
(* it passed to the result callback, whether a network operation was       *)
(* started, and the branch it took.                                        *)
(***************************************************************************)
OpResult(t, m, spawn, cb, net, path) ==
    [ts |-> t, messages |-> m, spawn |-> spawn, cb |-> cb, net |-> net, path |-> path]

Flight(is_load, cell) == [load |-> is_load, cell |-> cell, tag |-> FALSE]

(***************************************************************************)
(* EntityStore (src/browser/entity.rs)                                     *)
(***************************************************************************)
fetch_start_first(request, t, m, storage_entity) ==
    LET started == IF request.is_load THEN start_load(t) ELSE start_store(t)
    IN  IF ~request.start_ok
            THEN OpResult(stop(started, "FetchFailed"), m, Nothing, <<"BadRequest">>,
                          FALSE, "start_failed")
            ELSE OpResult(started, m, Some(Flight(request.is_load, storage_entity)),
                          <<>>, TRUE, "started")

fetch(request, t, m, storage_entity) ==
    IF ~request.start_ok
        THEN OpResult(stop(t, "FetchFailed"), m, Nothing, <<"BadRequest">>,
                      FALSE, "start_failed")
        ELSE OpResult(IF request.is_load THEN start_load(t) ELSE start_store(t), m,
                      Some(Flight(request.is_load, storage_entity)), <<>>, TRUE, "started")

\* the free function store: to_json is whether serializing the entity succeeds
store_none_fails(request, t, m, request_entity, storage_entity, to_json) ==
    IF request.media_type \notin StructuredMediaTypes
        THEN OpResult(stop(t, "UnsupportedMediaType"),
                      replace(m, from_service_error(UnsupportedText)),
                      Nothing, <<>>, FALSE, "unsupported")
    ELSE IF request_entity = None
        THEN OpResult(stop(t, "BadRequest"), m, Nothing, <<"BadRequest">>, FALSE, "no_entity")
    ELSE IF ~to_json
        THEN OpResult(t, m, Nothing, <<>>, FALSE, "serialize_failed")
    ELSE fetch(request, t, m, storage_entity)

store(request, t, m, request_entity, storage_entity, to_json) ==
    IF request.media_type \notin StructuredMediaTypes
        THEN OpResult(stop(t, "UnsupportedMediaType"),
                      replace(m, from_service_error(UnsupportedText)),
                      Nothing, <<>>, FALSE, "unsupported")
    ELSE IF request_entity = None
        THEN OpResult(t, m, Nothing, <<>>, FALSE, "no_entity")
    ELSE IF ~to_json
        THEN OpResult(t, m, Nothing, <<>>, FALSE, "serialize_failed")
    ELSE fetch(request, t, m, storage_entity)

EntityStore_load_skip_cache_cached(request, t, m) ==
    IF loaded(t)
        THEN OpResult(t, m, Nothing, <<>>, FALSE, "hit")
        ELSE fetch(with_is_load(request, TRUE), t, m, "own")

EntityStore_load_skip_cache(request, t, m) ==
    fetch(with_is_load(request, TRUE), t, m, "own")

EntityStore_load_always(request, t, m) == EntityStore_load_skip_cache(request, t, m)

EntityStore_load(request, t, m) ==
    IF loaded(t)
        THEN OpResult(t, m, Nothing, <<>>, FALSE, "hit")
        ELSE EntityStore_load_skip_cache(request, t, m)

EntityStore_load_with_request(request, t, m, request_entity, to_json) ==
    store(with_is_load(request, TRUE), t, m, request_entity, "own", to_json)

EntityStore_execute(request, t, m) ==
    fetch(with_is_load(request, FALSE), t, m, "none")

EntityStore_execute_with_response(request, t, m) ==
    fetch(with_is_load(request, FALSE), t, m, "ext")

EntityStore_store_with_response(request, t, m, e, to_json) ==
    store(with_is_load(request, FALSE), t, m, e, "ext", to_json)

EntityStore_store(request, t, m, e, to_json) ==
    store(with_is_load(request, FALSE), t, m, e,
          IF request.wants_response THEN "own" ELSE "none", to_json)

execute_entity_fetch_report(result, m, storage_entity, value) ==
    IF result.status \in {"FetchTimeout", "FetchFailed", "DecodeFailed"}
        THEN [ status |-> result.status,
               messages |-> add_with_pars(m, SERVICE, "Error", "failed", <<>>),
               value |-> value, wrote |-> Nothing ]
    ELSE IF result.response = Nothing
        THEN [status |-> result.status, messages |-> m, value |-> value, wrote |-> Nothing]
        ELSE LET response == result.response[1]
                 write == response.entity # None /\ storage_entity # "none"
             IN  [ status |-> result.status,
                   messages |-> replace(m, from_inner(response.messages)),
                   value |-> IF write /\ storage_entity = "own" THEN response.entity ELSE value,
                   wrote |-> IF write THEN Some(response.entity) ELSE Nothing ]

execute_entity_fetch_overwrite(result, m, storage_entity, value) ==
    IF result.status \in {"FetchTimeout", "FetchFailed", "DecodeFailed"}
           \/ result.response = Nothing
        THEN [status |-> result.status, messages |-> m, value |-> value, wrote |-> Nothing]
        ELSE LET response == result.response[1]
             IN  [ status |-> result.status,
                   messages |-> replace(m, from_inner(response.messages)),
                   value |-> IF storage_entity = "own" THEN response.entity ELSE value,
                   wrote |-> IF storage_entity # "none"
                                 THEN Some(response.entity) ELSE Nothing ]

execute_entity_fetch_into_own(result, m, storage_entity, value) ==
    IF result.status \in {"FetchTimeout", "FetchFailed", "DecodeFailed"}
           \/ result.response = Nothing
        THEN [status |-> result.status, messages |-> m, value |-> value, wrote |-> Nothing]
        ELSE LET response == result.response[1]
                 write == response.entity # None /\ storage_entity # "none"
             IN  [ status |-> result.status,
                   messages |-> replace(m, from_inner(response.messages)),
                   value |-> IF write THEN response.entity ELSE value,
                   wrote |-> IF write THEN Some(response.entity) ELSE Nothing ]

\* what the awaited pipeline result does to Messages and to the response cell:
\* storage_entity is "own" (the store's entity), "ext" (a cell of the caller) or
\* "none"; value is the store's entity, wrote what was set into the cell
execute_entity_fetch(result, m, storage_entity, value) ==
    IF result.status \in {"FetchTimeout", "FetchFailed", "DecodeFailed"}
           \/ result.response = Nothing
        THEN [status |-> result.status, messages |-> m, value |-> value, wrote |-> Nothing]
        ELSE LET response == result.response[1]
                 write == response.entity # None /\ storage_entity # "none"
             IN  [ status |-> result.status,
                   messages |-> replace(m, from_inner(response.messages)),
                   value |-> IF write /\ storage_entity = "own" THEN response.entity ELSE value,
                   wrote |-> IF write THEN Some(response.entity) ELSE Nothing ]

\* the tail of the spawned task: the pipeline result has been applied, the
\* callback runs, then stop(status).  seen is what the callback can read of
\* the store; before is the store as it was when the result arrived.
fetch_task_stop_first(t, before, applied) ==
    [ seen |-> [ts |-> stop(t, applied.status), messages |-> applied.messages,
                value |-> applied.value],
      cb |-> <<applied.status>>,
      ts |-> stop(t, applied.status) ]

fetch_task_stop_failed(t, before, applied) ==
    [ seen |-> [ts |-> t, messages |-> applied.messages, value |-> applied.value],
      cb |-> <<applied.status>>,
      ts |-> stop(t, "FetchFailed") ]

fetch_task(t, before, applied) ==
    [ seen |-> [ts |-> t, messages |-> applied.messages, value |-> applied.value],
      cb |-> <<applied.status>>,
      ts |-> stop(t, applied.status) ]

(***************************************************************************)
(* CollectionStore (src/browser/collection.rs)                             *)
(***************************************************************************)
collection_fetch(request, t, m) ==
    IF ~request.start_ok
        THEN OpResult(stop(t, "FetchFailed"), m, Nothing, <<"BadRequest">>,
                      FALSE, "start_failed")
        ELSE OpResult(IF request.is_load THEN start_load(t) ELSE start_store(t), m,
                      Some(Flight(request.is_load, "own")), <<>>, TRUE, "started")

CollectionStore_load_skip_cache(request, t, m) ==
    collection_fetch(with_is_load(request, TRUE), t, m)

CollectionStore_load(request, t, m) ==
    IF loaded(t)
        THEN OpResult(t, m, Nothing, <<>>, FALSE, "hit")
        ELSE CollectionStore_load_skip_cache(request, t, m)

\* content.to_json() / content.to_postcard() of collection.to_vec(): the bytes
\* encode the whole sequence, in its order, in the format of the media type
to_bytes(media_type, content) == [format |-> media_type, content |-> content]

\* MS::sign: NoMac signs nothing, an implementation may sign every message or part
Signers == {"NoMac", "Mac", "MacSingle"}

sign(signer, message) ==
    CASE signer = "NoMac" -> Nothing
      [] signer = "Mac" -> Some([mac |-> message])
      [] OTHER -> IF Len(message.content) = 1 THEN Some([mac |-> message]) ELSE Nothing

\* the body and the signature header of the request as CollectionStore::store
\* hands it to fetch; Nothing when it returns before
CollectionStore_store_request_always(request, c, signer) ==
    IF request.media_type \notin StructuredMediaTypes
        THEN Nothing
        ELSE LET bytes == to_bytes(request.media_type, c)
             IN  Some([body |-> Some(bytes), signature |-> sign(signer, bytes)])

CollectionStore_store_request(request, c, signer) ==
    IF c = <<>>
        THEN Some([body |-> Nothing, signature |-> Nothing])
    ELSE IF request.media_type \notin StructuredMediaTypes
        THEN Nothing
        ELSE LET bytes == to_bytes(request.media_type, c)
             IN  Some([body |-> Some(bytes), signature |-> sign(signer, bytes)])

CollectionStore_store(request, t, m, c) ==
    IF c # <<>> /\ request.media_type \notin StructuredMediaTypes
        THEN OpResult(stop(t, "UnsupportedMediaType"),
                      replace(m, from_service_error(UnsupportedText)),
                      Nothing, <<>>, FALSE, "unsupported")
        ELSE collection_fetch(with_is_load(request, FALSE), t, m)

execute_collection_fetch_extend(result, m, c, pg) ==
    IF result.status \in {"FetchTimeout", "FetchFailed", "DecodeFailed"}
           \/ result.response = Nothing
        THEN [ status |-> result.status, messages |-> m, collection |-> c,
               paging |-> pg, value |-> <<c, pg>>, wrote |-> Nothing ]
        ELSE LET response == result.response[1]
                 extended == IF response.collection # Nothing
                                 THEN c \o response.collection[1] ELSE c
             IN  [ status |-> result.status,
                   messages |-> replace(m, from_inner(response.messages)),
                   collection |-> extended,
                   paging |-> response.paging,
                   value |-> <<extended, response.paging>>,
                   wrote |-> response.collection ]

execute_collection_fetch(result, m, c, pg) ==
    IF result.status \in {"FetchTimeout", "FetchFailed", "DecodeFailed"}
           \/ result.response = Nothing
        THEN [ status |-> result.status, messages |-> m, collection |-> c,
               paging |-> pg, value |-> <<c, pg>>, wrote |-> Nothing ]
        ELSE LET response == result.response[1]
             IN  [ status |-> result.status,
                   messages |-> replace(m, from_inner(response.messages)),
                   collection |-> IF response.collection # Nothing
                                      THEN response.collection[1] ELSE c,
                   paging |-> response.paging,
                   value |-> << IF response.collection # Nothing
                                    THEN response.collection[1] ELSE c,
                                response.paging >>,
                   wrote |-> response.collection ]

collection_fetch_task(t, before, applied) ==
    [ seen |-> [ts |-> t, messages |-> applied.messages, value |-> applied.value],
      cb |-> <<applied.status>>,
      ts |-> stop(t, applied.status) ]

(***************************************************************************)
(* The store as a state machine.  Every action records in ev what the      *)
(* operation did; prevLoad, race and lastStart follow the history the      *)
(* properties speak about.                                                 *)
(***************************************************************************)
SuccessCodes == {"Ok", "Created", "NoContent", "NotModified"}

\* no fetch task is followed step by step
NoJob == [pc |-> "none"]

NoEv ==
    [ op |-> "init", path |-> "none", net |-> FALSE, cb |-> <<>>, spawned |-> FALSE,
      load |-> FALSE, status |-> None, wrote |-> Nothing, seen |-> Nothing,
      prev |-> "none" ]

ClearTags(fs) ==
    IF fs = <<>> THEN <<>> ELSE [i \in 1..Len(fs) |-> [fs[i] EXCEPT !.tag = FALSE]]

RemoveAt(fs, i) == SubSeq(fs, 1, i - 1) \o SubSeq(fs, i + 1, Len(fs))

RaceAfter(r) ==
    IF r.net
        THEN IF flights = <<>> THEN "solo"
             ELSE IF race \in {"solo", "overlap"} THEN "overlap" ELSE "void"
    ELSE IF r.path \in {"hit", "no_entity", "serialize_failed"} THEN race
    ELSE "void"

\* the effect of a synchronous operation r of name op on the store
Apply(op, is_load_call, r) ==
    /\ r.spawn = Nothing \/ Len(flights) < MaxFlights
    /\ ts' = r.ts
    /\ messages' = r.messages
    /\ flights' = IF r.spawn = Nothing
                      THEN ClearTags(flights)
                      ELSE Append(ClearTags(flights),
                                  [r.spawn[1] EXCEPT !.tag = is_load_call])
    /\ ev' = [NoEv EXCEPT !.op = op, !.path = r.path, !.net = r.net, !.cb = r.cb,
                          !.spawned = (r.spawn # Nothing),
                          !.prev = IF is_load_call THEN prevLoad ELSE "none"]
    /\ prevLoad' = IF ~is_load_call THEN "none"
                   ELSE CASE r.path = "hit" -> "hit"
                          [] r.path = "started" -> "pending"
                          [] OTHER -> "preflight"
    /\ race' = RaceAfter(r)
    /\ lastStart' = IF r.net THEN (IF r.spawn[1].load THEN "load" ELSE "store")
                    ELSE lastStart
    /\ UNCHANGED <<kind, entity, collection, paging, open, completed, job, loadedOnce>>

\* history of a completion: f is the completed flight; wrote is what went
\* into the store's own value (a cell of the caller is no part of the store)
Completed(f, applied, task) ==
    /\ ev' = [NoEv EXCEPT !.op = "complete", !.path = "completed", !.cb = task.cb,
                          !.load = f.load, !.status = applied.status,
                          !.wrote = IF f.cell = "ext" THEN Nothing ELSE applied.wrote,
                          !.seen = Some(task.seen)]
    /\ prevLoad' = IF f.tag
                       THEN (IF applied.status \in SuccessCodes THEN "ok" ELSE "failed")
                   ELSE IF prevLoad \in {"none", "pending"} THEN prevLoad
                   ELSE "dirty"
    /\ UNCHANGED <<kind, race, lastStart, open, completed, job, loadedOnce>>

\* history of an operation that is no fetch
Touched(op) ==
    /\ ev' = [NoEv EXCEPT !.op = op]
    /\ prevLoad' = "none"
    /\ race' = "void"
    /\ flights' = ClearTags(flights)
    /\ UNCHANGED <<kind, lastStart, open, completed, job, loadedOnce>>

EntityLoad ==
    /\ kind = "entity"
    /\ \E r \in { EntityStore_load(request, ts, messages) : request \in Requests } :
          Apply("load", TRUE, r)

EntityLoadSkipCache ==
    /\ kind = "entity"
    /\ \E r \in { EntityStore_load_skip_cache(request, ts, messages) :
                    request \in Requests } :
          Apply("load_skip_cache", FALSE, r)

EntityLoadWithRequest ==
    /\ kind = "entity"
    /\ \E r \in { EntityStore_load_with_request(request, ts, messages, request_entity, to_json) :
                    request \in Requests, request_entity \in {None, "e1"},
                    to_json \in BOOLEAN } :
          Apply("load_with_request", FALSE, r)

EntityExecute ==
    /\ kind = "entity"
    /\ \E r \in { EntityStore_execute(request, ts, messages) : request \in Requests } :
          Apply("execute", FALSE, r)

EntityExecuteWithResponse ==
    /\ kind = "entity"
    /\ \E r \in { EntityStore_execute_with_response(request, ts, messages) :
                    request \in Requests } :
          Apply("execute_with_response", FALSE, r)

EntityStoreCall ==
    /\ kind = "entity"
    /\ \E r \in { EntityStore_store(request, ts, messages, entity, to_json) :
                    request \in Requests, to_json \in BOOLEAN } :
          Apply("store", FALSE, r)

EntityComplete ==
    /\ kind = "entity"
    /\ \E i \in 1..Len(flights) :
        \E applied \in { execute_entity_fetch(result, messages, flights[i].cell, entity) :
                          result \in EntityOutcomes } :
          LET f == flights[i]
              before == [messages |-> messages, value |-> entity]
              task == fetch_task(ts, before, applied)
          IN  /\ ts' = task.ts
              /\ messages' = applied.messages
              /\ entity' = applied.value
              /\ flights' = RemoveAt(flights, i)
              /\ Completed(f, applied, task)
              /\ UNCHANGED <<collection, paging>>

EntityInvalidate ==
    /\ kind = "entity"
    /\ ts' = Empty
    /\ Touched("invalidate")
    /\ UNCHANGED <<messages, entity, collection, paging>>

EntityReset ==
    /\ kind = "entity"
    /\ \E e \in {None, "e1"} :
          /\ ts' = Empty
          /\ messages' = clear_all(messages)
          /\ entity' = e
    /\ Touched("reset")
    /\ UNCHANGED <<collection, paging>>

CollectionLoad ==
    /\ kind = "collection"
    /\ \E r \in { CollectionStore_load(request, ts, messages) : request \in Requests } :
          Apply("load", TRUE, r)

CollectionLoadSkipCache ==
    /\ kind = "collection"
    /\ \E r \in { CollectionStore_load_skip_cache(request, ts, messages) :
                    request \in Requests } :
          Apply("load_skip_cache", FALSE, r)

CollectionStoreCall ==
    /\ kind = "collection"
    /\ \E r \in { CollectionStore_store(request, ts, messages, collection) :
                    request \in Requests } :
          Apply("store", FALSE, r)

CollectionComplete ==
    /\ kind = "collection"
    /\ \E i \in 1..Len(flights) :
        \E applied \in { execute_collection_fetch(result, messages, collection, paging) :
                          result \in CollectionOutcomes } :
          LET f == flights[i]
              before == [messages |-> messages, value |-> <<collection, paging>>]
              task == collection_fetch_task(ts, before, applied)
          IN  /\ ts' = task.ts
              /\ messages' = applied.messages
              /\ collection' = applied.collection
              /\ paging' = applied.paging
              /\ flights' = RemoveAt(flights, i)
              /\ Completed(f, applied, task)
              /\ UNCHANGED entity

CollectionInvalidate ==
    /\ kind = "collection"
    /\ ts' = Empty
    /\ Touched("invalidate")
    /\ UNCHANGED <<messages, entity, collection, paging>>

CollectionResetToEmpty ==
    /\ kind = "collection"
    /\ ts' = Empty
    /\ messages' = clear_all(messages)
    /\ paging' = PagingDefault
    /\ collection' = <<>>
    /\ Touched("reset_to_empty")
    /\ UNCHANGED entity

\* CollectionStore::reset clears the sequence and nothing else: the transfer
\* state, the messages and the paging stay as they were.
CollectionReset ==
    /\ kind = "collection"
    /\ collection' = <<>>
    /\ Touched("collection_reset")
    /\ UNCHANGED <<ts, messages, entity, paging>>

Init ==
    /\ kind \in {"entity", "collection"}
    /\ ts = Empty
    /\ messages = MessagesNew
    /\ entity \in (IF kind = "entity" THEN {None, "e1"} ELSE {None})
    /\ collection \in (IF kind = "collection" THEN {<<>>, <<"e1">>} ELSE {<<>>})
    /\ paging = PagingDefault
    /\ flights = <<>>
    /\ ev = NoEv
    /\ prevLoad = "none"
    /\ race = "void"
    /\ lastStart = "none"
    /\ open = "none"
    /\ completed = [verb |-> "none", status |-> None]
    /\ loadedOnce = FALSE
    /\ job = NoJob

Next ==
    \/ EntityLoad
    \/ EntityLoadSkipCache
    \/ EntityLoadWithRequest
    \/ EntityExecute
    \/ EntityExecuteWithResponse
    \/ EntityStoreCall
    \/ EntityComplete
    \/ EntityInvalidate
    \/ EntityReset
    \/ CollectionLoad
    \/ CollectionLoadSkipCache
    \/ CollectionStoreCall
    \/ CollectionComplete
    \/ CollectionInvalidate
    \/ CollectionResetToEmpty
    \/ CollectionReset

Spec == Init /\ [][Next]_vars

(***************************************************************************)
(* The TransferState machine alone, driven under the documented protocol:  *)
(* a stop only after a start that no stop has followed yet.                *)
(***************************************************************************)
StoreUntouched ==
    UNCHANGED <<kind, messages, entity, collection, paging, flights, ev, prevLoad,
                race, lastStart, job, loadedOnce>>

TSStartLoad ==
    /\ ts' = start_load(ts)
    /\ open' = "load"
    /\ UNCHANGED completed
    /\ StoreUntouched

TSStartStore ==
    /\ ts' = start_store(ts)
    /\ open' = "store"
    /\ UNCHANGED completed
    /\ StoreUntouched

TSStop ==
    /\ open # "none"
    /\ \E status \in StatusCode :
          /\ ts' = stop(ts, status)
          /\ completed' = [verb |-> open, status |-> status]
    /\ open' = "none"
    /\ StoreUntouched

InitTS ==
    /\ kind = "machine"
    /\ ts = Empty
    /\ messages = MessagesNew
    /\ entity = None
    /\ collection = <<>>
    /\ paging = PagingDefault
    /\ flights = <<>>
    /\ ev = NoEv
    /\ prevLoad = "none"
    /\ race = "void"
    /\ lastStart = "none"
    /\ open = "none"
    /\ completed = [verb |-> "none", status |-> None]
    /\ loadedOnce = FALSE
    /\ job = NoJob

NextTS ==
    \/ TSStartLoad
    \/ TSStartStore
    \/ TSStop

SpecTS == InitTS /\ [][NextTS]_vars

(***************************************************************************)
(* A Messages value alone, mutated by the application between fetches.     *)
(***************************************************************************)
MessageTypes == {"Error", "Information", "Section"}

MessageKeys == {SERVICE, ENTITY}

\* the Messages values handed to replace
ReplaceWith ==
    { MessagesNew,
      from_service_error("t"),
      from_inner(ENTITY :> <<Message("Information", "t", <<>>)>>),
      from_inner(ENTITY :> <<Message("Error", "t", <<>>)>>) }

MessagesOnly(op) ==
    /\ ev' = [NoEv EXCEPT !.op = op]
    /\ UNCHANGED <<kind, ts, entity, collection, paging, flights, prevLoad, race,
                   lastStart, open, completed, job, loadedOnce>>

MsgAdd ==
    /\ \E key \in MessageKeys, message_type \in MessageTypes :
          /\ key \in DOMAIN messages.messages => Len(messages.messages[key]) < MaxMessages
          /\ messages' = add_with_pars(messages, key, message_type, "t", <<>>)
    /\ MessagesOnly("add")

MsgSet ==
    /\ \E key \in MessageKeys, message_type \in MessageTypes :
          messages' = set_with_pars(messages, key, message_type, "t", <<>>)
    /\ MessagesOnly("set")

MsgClear ==
    /\ \E key \in MessageKeys : messages' = clear(messages, key)
    /\ MessagesOnly("clear")

MsgReplace ==
    /\ \E with \in ReplaceWith : messages' = replace(messages, with)
    /\ MessagesOnly("replace")

MsgClearAll ==
    /\ messages' = clear_all(messages)
    /\ MessagesOnly("clear_all")

InitMsg ==
    /\ kind = "messages"
    /\ ts = Empty
    /\ messages = MessagesNew
    /\ entity = None
    /\ collection = <<>>
    /\ paging = PagingDefault
    /\ flights = <<>>
    /\ ev = NoEv
    /\ prevLoad = "none"
    /\ race = "void"
    /\ lastStart = "none"
    /\ open = "none"
    /\ completed = [verb |-> "none", status |-> None]
    /\ loadedOnce = FALSE
    /\ job = NoJob

NextMsg ==
    \/ MsgAdd
    \/ MsgSet
    \/ MsgClear
    \/ MsgReplace
    \/ MsgClearAll

SpecMsg == InitMsg /\ [][NextMsg]_vars

(***************************************************************************)
(* One spawned fetch task, followed step by step: the store is as the      *)
(* synchronous part of fetch left it (pending), the network delivers raw,  *)
(* and the task runs execute_fetch, applies the response, invokes the      *)
(* callback and stops.  job.before is the store when the task was spawned. *)
(***************************************************************************)
FetchCodes == {200, 204, 304, 400, 409, 501}

FetchContentTypes ==
    {None, "application/json", "application/x-postcard", "text/plain", "application/x-unknown"}

Verdicts == {"valid", "invalid", "error"}

\* the raw network results a followed task draws from
FetchInputs(payloads) ==
    LET one == CHOOSE pl \in payloads : TRUE
    IN  { [RawResponse(0, None, NoBody, "valid") EXCEPT !.net = n] :
             n \in {"timeout", "start_failed"} }
        \cup { [RawResponse(0, None, NoBody, "valid") EXCEPT !.type = "error"] }
        \cup { RawResponse(c, ct, b, "valid") :
                 c \in FetchCodes, ct \in FetchContentTypes,
                 b \in {NoBody, Body("unreadable", Nothing), Body("Json", Some(one))} }
        \cup { RawResponse(c, "application/json", Body("Json", Some(pl)), v) :
                 c \in {200, 400}, pl \in payloads, v \in Verdicts }
        \cup { RawResponse(200, ct, Body("Postcard", Some(one)), "valid") :
                 ct \in {"application/json", "application/x-postcard"} }
        \cup { RawResponse(200, "application/json", Body("Json", Nothing), "valid") }

\* the Messages a store can hold when a fetch is started
StoreMessages == { MessagesNew, replace(MessagesNew, from_service_error(UnsupportedText)) }

StoreValue == IF kind = "entity" THEN entity ELSE <<collection, paging>>

InitFetchWith(more) ==
    /\ kind \in {"entity", "collection"}
    /\ ts \in {PendingLoad, PendingStore}
    /\ messages \in StoreMessages
    /\ entity \in (IF kind = "entity" THEN {None, "e1"} ELSE {None})
    /\ collection \in (IF kind = "collection" THEN {<<>>, <<"e1">>} ELSE {<<>>})
    /\ paging \in (IF kind = "collection" THEN {PagingDefault, PagingNext} ELSE {PagingDefault})
    /\ flights = <<>>
    /\ ev = NoEv
    /\ prevLoad = "none"
    /\ race = "void"
    /\ lastStart = "none"
    /\ open = "none"
    /\ completed = [verb |-> "none", status |-> None]
    /\ loadedOnce = FALSE
    /\ \E raw \in FetchInputs(IF kind = "entity" THEN EntityPayloads ELSE CollectionPayloads)
                      \cup more,
          cell \in (IF kind = "entity"
                       THEN (IF ts = PendingStore THEN {"own", "none", "ext"}
                                                  ELSE {"own", "none"})
                       ELSE {"own"}) :
          job = [ pc |-> "spawned", raw |-> raw, load |-> (ts = PendingLoad), cell |-> cell,
                  ext |-> None,
                  before |-> [ts |-> ts, messages |-> messages, value |-> StoreValue],
                  result |-> Nothing, status |-> None, cb |-> <<>>, seen |-> Nothing ]

InitFetch == InitFetchWith({})

JobOnly ==
    UNCHANGED <<kind, flights, ev, prevLoad, race, lastStart, open, completed, loadedOnce>>

\* let mut result = execute_fetch(pending_fetch).await
FetchExecute ==
    /\ job.pc = "spawned"
    /\ job' = [job EXCEPT !.pc = "executed", !.result = Some(execute_fetch(job.raw))]
    /\ UNCHANGED <<ts, messages, entity, collection, paging>>
    /\ JobOnly

\* match (result.status(), result.take_response())
FetchApply ==
    /\ job.pc = "executed"
    /\ IF kind = "entity"
          THEN LET applied == execute_entity_fetch(job.result[1], messages, job.cell, entity)
               IN  /\ messages' = applied.messages
                   /\ entity' = applied.value
                   /\ job' = [job EXCEPT !.pc = "applied", !.status = applied.status,
                                          !.ext = IF job.cell = "ext" /\ applied.wrote # Nothing
                                                      THEN applied.wrote[1] ELSE @]
                   /\ UNCHANGED <<collection, paging>>
          ELSE LET applied == execute_collection_fetch(job.result[1], messages,
                                                       collection, paging)
               IN  /\ messages' = applied.messages
                   /\ collection' = applied.collection
                   /\ paging' = applied.paging
                   /\ job' = [job EXCEPT !.pc = "applied", !.status = applied.status]
                   /\ UNCHANGED entity
    /\ UNCHANGED ts
    /\ JobOnly

\* the task as fetch_task / collection_fetch_task runs it from here
JobTask ==
    LET applied == [status |-> job.status, messages |-> messages, value |-> StoreValue]
    IN  IF kind = "entity"
            THEN fetch_task(ts, job.before, applied)
            ELSE collection_fetch_task(ts, job.before, applied)

\* result_callback(status)
FetchCallback ==
    /\ job.pc = "applied"
    /\ job' = [job EXCEPT !.pc = "called", !.cb = JobTask.cb, !.seen = Some(JobTask.seen)]
    /\ UNCHANGED <<ts, messages, entity, collection, paging>>
    /\ JobOnly

\* transfer_state.lock_mut().stop(status)
FetchStop ==
    /\ job.pc = "called"
    /\ ts' = JobTask.ts
    /\ job' = [job EXCEPT !.pc = "done"]
    /\ UNCHANGED <<messages, entity, collection, paging>>
    /\ JobOnly

NextFetch ==
    \/ FetchExecute
    \/ FetchApply
    \/ FetchCallback
    \/ FetchStop

SpecFetch == InitFetch /\ [][NextFetch]_vars

(***************************************************************************)
(* SpecLive: the spawned task of SpecFetch with its two suspension points  *)
(* apart, under fairness.  The task first awaits wait_completion, the      *)
(* race of the network operation against the timer, and then, for a        *)
(* response it decodes, the read of the body (JsFuture of array_buffer),   *)
(* which no timer bounds.  A body of format "stalled" is one whose read    *)
(* never settles.  The race is always resolved, by the timer if by nothing *)
(* else, and the event loop runs every step of a task that can run: each   *)
(* step is weakly fair.                                                    *)
(***************************************************************************)
StalledResponses ==
    { RawResponse(c, ct, Body("stalled", Nothing), "valid") :
         c \in {200, 304, 400}, ct \in {None, "application/json"} }

\* execute_fetch awaits the body of the responses it hands to decode_response
awaits_body(raw) ==
    LET fetched == wait_completion(raw)
    IN  fetched.response # Nothing /\ fetched.status \in DecodableStatuses

\* fetch.wait_completion().await
LiveWait ==
    /\ job.pc = "spawned"
    /\ job' = [job EXCEPT !.pc = "waited"]
    /\ UNCHANGED <<ts, messages, entity, collection, paging>>
    /\ JobOnly

\* the rest of execute_fetch: JsFuture::from(array_promise).await when the
\* response is decoded, then decode_content
LiveDecode ==
    /\ job.pc = "waited"
    /\ awaits_body(job.raw) => job.raw.body.format # "stalled"
    /\ job' = [job EXCEPT !.pc = "executed", !.result = Some(execute_fetch(job.raw))]
    /\ UNCHANGED <<ts, messages, entity, collection, paging>>
    /\ JobOnly

InitLive == InitFetchWith(StalledResponses)

NextLive ==
    \/ LiveWait
    \/ LiveDecode
    \/ FetchApply
    \/ FetchCallback
    \/ FetchStop

SpecLive ==
    /\ InitLive
    /\ [][NextLive]_vars
    /\ WF_vars(LiveWait)
    /\ WF_vars(LiveDecode)
    /\ WF_vars(FetchApply)
    /\ WF_vars(FetchCallback)
    /\ WF_vars(FetchStop)


(***************************************************************************)
(* SpecCell: the TransferState cell of a store used without any protocol:  *)
(* the crate's start_load / start_store / stop, the public reset_error     *)
(* (EntityStore::reset_transfer_error) and the classification of a         *)
(* StatusCode, each applicable in every state.  job records the step:      *)
(* its name, the state it was applied to and the status it was given.      *)
(***************************************************************************)
CellOnly ==
    UNCHANGED <<kind, messages, entity, collection, paging, flights, ev, prevLoad,
                race, open, completed, loadedOnce>>

CellStep(name, status) ==
    [ pc |-> name, before |-> ts, status |-> status,
      success |-> IF status = None THEN FALSE ELSE is_success(status),
      failure |-> IF status = None THEN FALSE ELSE is_failure(status) ]

CellStartLoad ==
    /\ ts' = start_load(ts)
    /\ job' = CellStep("start_load", None)
    /\ lastStart' = "load"
    /\ CellOnly

CellStartStore ==
    /\ ts' = start_store(ts)
    /\ job' = CellStep("start_store", None)
    /\ lastStart' = "store"
    /\ CellOnly

CellStop ==
    /\ \E status \in StatusCode :
          /\ ts' = stop(ts, status)
          /\ job' = CellStep("stop", status)
    /\ UNCHANGED lastStart
    /\ CellOnly

CellResetError ==
    /\ ts' = reset_error(ts)
    /\ job' = CellStep("reset_error", None)
    /\ UNCHANGED lastStart
    /\ CellOnly

CellClassify ==
    /\ \E status \in StatusCode : job' = CellStep("classify", status)
    /\ UNCHANGED <<ts, lastStart>>
    /\ CellOnly

InitCell ==
    /\ kind = "cell"
    /\ ts = Empty
    /\ messages = MessagesNew
    /\ entity = None
    /\ collection = <<>>
    /\ paging = PagingDefault
    /\ flights = <<>>
    /\ ev = NoEv
    /\ prevLoad = "none"
    /\ race = "void"
    /\ lastStart = "none"
    /\ open = "none"
    /\ completed = [verb |-> "none", status |-> None]
    /\ loadedOnce = FALSE
    /\ job = NoJob

NextCell ==
    \/ CellStartLoad
    \/ CellStartStore
    \/ CellStop
    \/ CellResetError
    \/ CellClassify

SpecCell == InitCell /\ [][NextCell]_vars

(***************************************************************************)
(* SpecSeq: one EntityStore used by a caller that keeps the documented     *)
(* discipline: it issues no new call while pending() is true and does not  *)
(* invalidate or reset the store while a fetch is in flight.  History:     *)
(* completed is the fetch or pre-flight failure that ended last since the  *)
(* store was created or last invalidated / reset, loadedOnce whether a     *)
(* load completed with a success status since then, open the operation     *)
(* that started the most recent fetch.                                     *)
(***************************************************************************)
NothingCompleted == [verb |-> "none", status |-> None]

SeqUntouched == UNCHANGED <<kind, collection, paging, prevLoad, race, lastStart, job>>

\* a call of the store, made while pending() is false
SeqCall(op, r) ==
    /\ ~pending(ts)
    /\ ts' = r.ts
    /\ messages' = r.messages
    /\ flights' = IF r.spawn = Nothing THEN flights ELSE Append(flights, r.spawn[1])
    /\ ev' = [NoEv EXCEPT !.op = op, !.path = r.path, !.net = r.net, !.cb = r.cb,
                          !.spawned = (r.spawn # Nothing)]
    /\ completed' = IF r.path \in {"start_failed", "unsupported"}
                        THEN [verb |-> "preflight", status |-> r.ts.s]
                        ELSE completed
    /\ open' = IF r.path = "started" THEN op ELSE open
    /\ UNCHANGED <<entity, loadedOnce>>
    /\ SeqUntouched

SeqLoad ==
    \E r \in { EntityStore_load(request, ts, messages) : request \in Requests } :
        SeqCall("load", r)

SeqLoadSkipCache ==
    \E r \in { EntityStore_load_skip_cache(request, ts, messages) : request \in Requests } :
        SeqCall("load_skip_cache", r)

SeqLoadWithRequest ==
    \E r \in { EntityStore_load_with_request(request, ts, messages, request_entity, to_json) :
                  request \in Requests, request_entity \in {None, "e1"},
                  to_json \in BOOLEAN } :
        SeqCall("load_with_request", r)

SeqExecute ==
    \E r \in { EntityStore_execute(request, ts, messages) : request \in Requests } :
        SeqCall("execute", r)

SeqExecuteWithResponse ==
    \E r \in { EntityStore_execute_with_response(request, ts, messages) :
                  request \in Requests } :
        SeqCall("execute_with_response", r)

SeqStoreWithResponse ==
    \E r \in { EntityStore_store_with_response(request, ts, messages, entity, to_json) :
                  request \in Requests, to_json \in BOOLEAN } :
        SeqCall("store_with_response", r)

SeqStore ==
    \E r \in { EntityStore_store(request, ts, messages, entity, to_json) :
                  request \in Requests, to_json \in BOOLEAN } :
        SeqCall("store", r)

\* the spawned task of the fetch in flight runs to its end
SeqComplete ==
    /\ flights # <<>>
    /\ \E applied \in { execute_entity_fetch(result, messages, flights[1].cell, entity) :
                          result \in EntityOutcomes } :
          LET f == flights[1]
              task == fetch_task(ts, [messages |-> messages, value |-> entity], applied)
          IN  /\ ts' = task.ts
              /\ messages' = applied.messages
              /\ entity' = applied.value
              /\ flights' = <<>>
              /\ ev' = [NoEv EXCEPT !.op = "complete", !.path = "completed",
                                    !.cb = task.cb, !.load = f.load,
                                    !.status = applied.status,
                                    !.wrote = IF f.cell = "ext" THEN Nothing
                                                                ELSE applied.wrote,
                                    !.seen = Some(task.seen)]
              /\ completed' = [ verb |-> IF f.load THEN "load" ELSE "store",
                                status |-> applied.status ]
              /\ loadedOnce' = (loadedOnce \/ (f.load /\ is_success(applied.status)))
    /\ UNCHANGED open
    /\ SeqUntouched

SeqInvalidate ==
    /\ flights = <<>>
    /\ ts' = Empty
    /\ ev' = [NoEv EXCEPT !.op = "invalidate"]
    /\ completed' = NothingCompleted
    /\ loadedOnce' = FALSE
    /\ UNCHANGED <<messages, entity, flights, open>>
    /\ SeqUntouched

SeqReset ==
    /\ flights = <<>>
    /\ \E e \in {None, "e1"} :
          /\ ts' = Empty
          /\ messages' = clear_all(messages)
          /\ entity' = e
    /\ ev' = [NoEv EXCEPT !.op = "reset"]
    /\ completed' = NothingCompleted
    /\ loadedOnce' = FALSE
    /\ UNCHANGED <<flights, open>>
    /\ SeqUntouched

InitSeq ==
    /\ kind = "entity"
    /\ ts = Empty
    /\ messages = MessagesNew
    /\ entity \in {None, "e1"}
    /\ collection = <<>>
    /\ paging = PagingDefault
    /\ flights = <<>>
    /\ ev = NoEv
    /\ prevLoad = "none"
    /\ race = "void"
    /\ lastStart = "none"
    /\ open = "none"
    /\ completed = NothingCompleted
    /\ loadedOnce = FALSE
    /\ job = NoJob

NextSeq ==
    \/ SeqLoad
    \/ SeqLoadSkipCache
    \/ SeqLoadWithRequest
    \/ SeqExecute
    \/ SeqExecuteWithResponse
    \/ SeqStore
    \/ SeqStoreWithResponse
    \/ SeqComplete
    \/ SeqInvalidate
    \/ SeqReset

SpecSeq == InitSeq /\ [][NextSeq]_vars

(***************************************************************************)
(* SpecSend: one call of CollectionStore::store, followed up to the        *)
(* request it hands to fetch.  The collection, the request and the signer  *)
(* are drawn at construction; job holds the call and, once it returned,    *)
(* the branch taken and the body and signature header of the request.      *)
(***************************************************************************)
\* the longest collection stored
MaxLen == 2

Collections == UNION { [1..n -> Entities] : n \in 0..MaxLen }

SendStore ==
    /\ job.pc = "call"
    /\ LET r == CollectionStore_store(job.request, ts, messages, collection)
       IN  /\ ts' = r.ts
           /\ messages' = r.messages
           /\ flights' = IF r.spawn = Nothing THEN flights ELSE Append(flights, r.spawn[1])
           /\ job' = [job EXCEPT !.pc = "returned", !.path = r.path,
                                 !.sent = CollectionStore_store_request(job.request,
                                                                        collection,
                                                                        job.signer)]
    /\ UNCHANGED <<kind, entity, collection, paging, ev, prevLoad, race, lastStart,
                   open, completed, loadedOnce>>

InitSend ==
    /\ kind = "collection"
    /\ ts \in {Empty, Loaded("Ok")}
    /\ messages = MessagesNew
    /\ entity = None
    /\ collection \in Collections
    /\ paging = PagingDefault
    /\ flights = <<>>
    /\ ev = NoEv
    /\ prevLoad = "none"
    /\ race = "void"
    /\ lastStart = "none"
    /\ open = "none"
    /\ completed = NothingCompleted
    /\ loadedOnce = FALSE
    /\ \E request \in Requests, signer \in Signers :
          job = [ pc |-> "call", request |-> request, signer |-> signer,
                  path |-> "none", sent |-> Nothing ]

NextSend == SendStore

SpecSend == InitSend /\ [][NextSend]_vars




(***************************************************************************)
(* Properties                                                              *)
(***************************************************************************)
\* the value the store holds: the entity, or the collection
Value == IF kind = "entity" THEN entity ELSE collection

\* the operations that are handed a result callback
CallbackOps ==
    {"load", "load_skip_cache", "load_with_request", "store", "execute", "execute_with_response"}

\* C1: every operation handed a result callback that is no load() cache hit
\* invokes it exactly once: when the operation returns, the callback has been
\* invoked once or is held by the one task spawned for it, and the task invokes
\* it once on completion.
C1_CallbackExactlyOnce ==
    /\ (ev.op \in CallbackOps /\ ev.path # "hit")
          => Len(ev.cb) + (IF ev.spawned THEN 1 ELSE 0) = 1
    /\ ev.op = "complete" => Len(ev.cb) = 1

\* C2 as stated: a load() that directly follows a load() on the same store (no
\* other call between them) starts no network operation, whenever it is issued
\* and whatever became of the first.
C2_SecondLoadNeverFetches ==
    (ev.op = "load" /\ ev.prev # "none") => ~ev.net

\* C2 amended: a load() that directly follows a load() starts no network
\* operation when the first was a cache hit or its fetch completed with a
\* success status, and no other fetch completed on the store after that.
C2_SecondLoadAfterSuccessIsCacheHit ==
    (ev.op = "load" /\ ev.prev \in {"ok", "hit"})
        => (ev.path = "hit" /\ ~ev.net /\ ~ev.spawned /\ ev.cb = <<>>)

C2_Witness ==
    ev.op = "load" /\ ev.prev = "ok" /\ ev.path = "hit" /\ Len(flights) = 0

\* C3: a load() called while loaded() is true starts no network operation,
\* never invokes the callback and leaves TransferState, Messages, the value and
\* paging unchanged.
C3_CacheHitChangesNothing ==
    [][ (ev'.op = "load" /\ ts.v = "Loaded" /\ ts.s \in SuccessCodes)
            => /\ ~ev'.net /\ ~ev'.spawned /\ ev'.cb = <<>>
               /\ Len(flights') = Len(flights)
               /\ UNCHANGED <<ts, messages, entity, collection, paging>> ]_vars

C3_Witness ==
    ev.op = "load" /\ ev.path = "hit" /\ ts.v = "Loaded" /\ Len(flights) > 0

\* C4 as stated: after every protocol-obeying sequence of start_load /
\* start_store / stop calls, loaded() is true iff the last start that was
\* followed by a stop was a load and that stop's status is a success code.
C4_LoadedIffLastCompletedLoadOk ==
    loaded(ts) <=> (completed.verb = "load" /\ completed.status \in SuccessCodes)

\* C4 amended: the same, for sequences that do not end with a start; while a
\* start is not yet followed by its stop, loaded() is false.
C4_LoadedIffSettledLoadOk ==
    loaded(ts) <=>
        (open = "none" /\ completed.verb = "load" /\ completed.status \in SuccessCodes)

C4_Witness ==
    open = "none" /\ completed.verb = "load" /\ completed.status = "NotModified" /\ loaded(ts)

\* C5: pending() holds exactly for PendingLoad and PendingStore, loaded() exactly
\* for Loaded(s) with s a success code, stored() exactly for Stored(s) with s a
\* success code; loaded_status() / stored_status() give the wrapped code exactly
\* for Loaded / Stored and None otherwise.
C5_Predicates ==
    /\ ts \in TransferState
    /\ pending(ts) <=> (ts = PendingLoad \/ ts = PendingStore)
    /\ loaded(ts) <=> (\E s \in SuccessCodes : ts = Loaded(s))
    /\ stored(ts) <=> (\E s \in SuccessCodes : ts = Stored(s))
    /\ \A s \in StatusCode : ts = Loaded(s) => loaded_status(ts) = s
    /\ (\A s \in StatusCode : ts # Loaded(s)) => loaded_status(ts) = None
    /\ \A s \in StatusCode : ts = Stored(s) => stored_status(ts) = s
    /\ (\A s \in StatusCode : ts # Stored(s)) => stored_status(ts) = None
    /\ ts = Loaded("BadRequest") => ~loaded(ts)

C5_Witness == ts = Loaded("BadRequest") /\ completed.verb = "load"

\* C6 as stated: after two fetches that were in flight together have both
\* completed, TransferState has the variant and the status of the fetch that
\* completed last, and the value is the one that fetch wrote.
C6_LastCompletedVariantWins ==
    (ev.op = "complete" /\ flights = <<>> /\ race = "overlap")
        => /\ ts = (IF ev.load THEN Loaded(ev.status) ELSE Stored(ev.status))
           /\ ev.wrote # Nothing => Value = ev.wrote[1]

\* C6 amended: TransferState has the status of the fetch that completed last
\* and the variant of the fetch that was started last; the value is the one
\* the fetch that completed last wrote, when it wrote one.
C6_LastCompletionStatusLastStartVariant ==
    (ev.op = "complete" /\ flights = <<>> /\ race = "overlap")
        => /\ ts = (IF lastStart = "load" THEN Loaded(ev.status) ELSE Stored(ev.status))
           /\ ev.wrote # Nothing => Value = ev.wrote[1]

C6_Witness ==
    /\ ev.op = "complete" /\ flights = <<>> /\ race = "overlap"
    /\ ev.load /\ lastStart = "store" /\ ts = Stored("Ok") /\ ev.wrote # Nothing

\* C7: when nothing else touched the store between the start of a fetch and its
\* completion, the result callback reads the pending TransferState set at the
\* start, not the terminal one, and reads the Messages and the value with the
\* response already applied.
C7_CallbackSeesPending ==
    (ev.op = "complete" /\ race = "solo")
        => /\ ev.seen[1].ts = (IF ev.load THEN PendingLoad ELSE PendingStore)
           /\ ev.seen[1].ts # ts
           /\ ev.seen[1].messages = messages
           /\ ev.seen[1].value = (IF kind = "entity" THEN entity ELSE <<collection, paging>>)

C7_Witness ==
    /\ ev.op = "complete" /\ race = "solo" /\ ev.wrote # Nothing
    /\ ts = Loaded("Ok") /\ messages.error

\* C8 as stated: when Request::start fails, the callback gets BadRequest, no
\* network operation starts and TransferState becomes Loaded(FetchFailed),
\* whatever it was before.
C8_PreflightAlwaysLoadedFetchFailed ==
    [][ ev'.path = "start_failed"
            => /\ ev'.cb = <<"BadRequest">> /\ ~ev'.net /\ ~ev'.spawned
               /\ ts' = Loaded("FetchFailed") ]_vars

\* C8 amended: ... and TransferState becomes Stored(FetchFailed) when it was
\* PendingStore or Stored(_) before the call, Loaded(FetchFailed) otherwise,
\* for both load and store intent.
C8_PreflightStopsPriorState ==
    [][ ev'.path = "start_failed"
            => /\ ev'.cb = <<"BadRequest">> /\ ~ev'.net /\ ~ev'.spawned
               /\ Len(flights') = Len(flights)
               /\ ts' = (IF ts.v \in {"PendingStore", "Stored"}
                             THEN Stored("FetchFailed") ELSE Loaded("FetchFailed")) ]_vars

C8_Witness ==
    ev.path = "start_failed" /\ ev.op = "load" /\ ts = Stored("FetchFailed")

\* C9: a store() whose request declares no media type or an unsupported one
\* starts no network operation, replaces Messages by a single service Error
\* message and leaves TransferState Stored(UnsupportedMediaType), whatever it
\* was before.
C9_UnsupportedStoreIsStored ==
    [][ (ev'.op = "store" /\ ev'.path = "unsupported")
            => /\ ~ev'.net /\ ~ev'.spawned
               /\ messages'.messages = (SERVICE :> <<Message("Error", UnsupportedText, <<>>)>>)
               /\ ts' = Stored("UnsupportedMediaType") ]_vars

\* C10: when EntityStore.store fails before the network call (unsupported media
\* type, or the entity cannot be serialized) the value is unchanged,
\* TransferState becomes terminal with a failure status and Messages report
\* the error.
C10_PreflightStoreFailureRecorded ==
    [][ (kind = "entity" /\ ev'.op = "store"
            /\ ev'.path \in {"unsupported", "serialize_failed"})
            => /\ entity' = entity
               /\ ts'.v \in {"Loaded", "Stored"} /\ ts'.s \notin SuccessCodes
               /\ messages'.error ]_vars

\* C14: after any sequence of add, set, clear, replace and clear_all calls on a
\* Messages value, error() is true iff some message of some category has kind
\* Error.
C14_ErrorFlagIsAggregate ==
    messages.error <=>
        (\E k \in DOMAIN messages.messages :
            \E i \in 1..Len(messages.messages[k]) :
                messages.messages[k][i].message_type = "Error")

\* the followed task has run to its end
JobDone == job.pc = "done"

\* the followed task ended with a decoded response envelope
JobDecoded == JobDone /\ job.result[1].response # Nothing

\* C11: when an EntityStore fetch completes with a decoded response, a carried
\* entity becomes the value of the configured response cell, and without a
\* carried entity the value is unchanged; a load answered 200 with an entity
\* ends with that entity as the value, Loaded(Ok), and the callback given Ok.
C11_EntityResponseApplied ==
    (kind = "entity" /\ JobDecoded) =>
        LET response == job.result[1].response[1]
        IN  /\ (response.entity # None /\ job.cell = "own") => entity = response.entity
            /\ response.entity = None => entity = job.before.value
            /\ (job.load /\ job.cell = "own" /\ job.raw.code = 200 /\ response.entity # None)
                  => (entity = response.entity /\ ts = Loaded("Ok") /\ job.cb = <<"Ok">>)

C11_Witness ==
    /\ kind = "entity" /\ JobDecoded /\ job.load /\ job.raw.code = 200
    /\ job.before.value = "e1" /\ entity = "e2" /\ ts = Loaded("Ok") /\ job.cb = <<"Ok">>

\* the messages the received response carries in its body, none without a body
CarriedMessages ==
    IF job.raw.body.payload = Nothing THEN EmptyMap ELSE job.raw.body.payload[1].messages

\* C12 as stated: after every completed fetch that received a server response
\* (and did not end as a transport or decode failure) the store's Messages are
\* exactly the messages that response carried, and empty when it carried none
\* or had no body.
C12_MessagesAreTheResponses ==
    (JobDone /\ job.raw.net = "response" /\ job.raw.type # "error"
        /\ job.status \notin {"FetchFailed", "FetchTimeout", "DecodeFailed"})
        => messages.messages = CarriedMessages

\* C12 amended: after a completed fetch whose response was decoded into an
\* envelope the store's Messages are exactly the envelope's messages (every
\* earlier category is gone, error() is their aggregate); after any other
\* completion the store's Messages are what they were before.
C12_MessagesReplacedOnDecodedResponse ==
    JobDone =>
        IF job.result[1].response # Nothing
            THEN /\ messages.messages = job.result[1].response[1].messages
                 /\ messages.error <=>
                        (\E k \in DOMAIN messages.messages :
                            \E i \in 1..Len(messages.messages[k]) :
                                messages.messages[k][i].message_type = "Error")
            ELSE messages = job.before.messages

C12_Witness ==
    /\ JobDecoded /\ SERVICE \in DOMAIN job.before.messages.messages
    /\ DOMAIN messages.messages = {ENTITY} /\ messages.error

\* C13: when a CollectionStore fetch completes with a decoded response, a
\* carried collection becomes the local sequence in server order, without one
\* the sequence is unchanged, and paging is the response's paging: limit 25, no
\* prev, no next when the response was built without one.
C13_CollectionResponseApplied ==
    (kind = "collection" /\ JobDecoded) =>
        LET response == job.result[1].response[1]
        IN  /\ response.collection # Nothing => collection = response.collection[1]
            /\ response.collection = Nothing => collection = job.before.value[1]
            /\ paging = response.paging
            /\ job.raw.body.payload[1].paging = PagingDefault
                  => paging = [limit |-> 25, prev |-> None, next |-> None]

C13_Witness ==
    /\ kind = "collection" /\ JobDecoded
    /\ job.before.value = << <<"e1">>, PagingNext >>
    /\ collection = <<"e2", "e1">> /\ paging = PagingDefault

\* the statuses for which execute_fetch reads and decodes the body
Eligible ==
    { "Ok", "Created", "NoContent", "BadRequest", "Forbidden", "InternalServerError",
      "NotFound", "PayloadTooBig", "RateLimited", "Unauthorized" }

\* the network delivered a response (no timeout, no rejected promise, no
\* network-error response)
Responded == job.raw.net = "response" /\ job.raw.type # "error"

\* C15: for a response with an eligible status, a decodable media type and a
\* non-empty body, MAC verification runs, and the deserializer runs only after
\* it reported valid; when the verifier reports invalid or fails, the outcome
\* is DecodeFailed, the deserializer is never invoked and the store's value is
\* what it was before.
C15_VerifyBeforeDeserialize ==
    (JobDone /\ Responded /\ from_u16(job.raw.code) \in Eligible
        /\ job.raw.content_type \in {"application/json", "application/x-postcard"}
        /\ job.raw.body.format \notin {"empty", "unreadable"})
        => LET calls == job.result[1].calls
           IN  /\ "verify" \in calls
               /\ "deserialize" \in calls => job.raw.verify = "valid"
               /\ job.raw.verify # "valid"
                     => /\ job.result[1].status = "DecodeFailed"
                        /\ job.cb = <<"DecodeFailed">>
                        /\ "deserialize" \notin calls
                        /\ StoreValue = job.before.value

C15_Witness ==
    /\ JobDone /\ job.raw.verify = "invalid" /\ job.raw.code = 200
    /\ job.raw.body.payload # Nothing /\ job.raw.body.payload[1].messages # EmptyMap
    /\ job.result[1].status = "DecodeFailed" /\ job.before.value = StoreValue

\* C16: for a response with a success status and a zero-length body,
\* execute_fetch yields that success status with no parsed value, whatever the
\* Content-Type header (present, missing or unrecognized).
C16_EmptyBodyIsSuccess ==
    (JobDone /\ Responded /\ from_u16(job.raw.code) \in SuccessCodes
        /\ job.raw.body.format = "empty")
        => /\ job.result[1].status = from_u16(job.raw.code)
           /\ job.result[1].response = Nothing

\* the MediaType the Content-Type header of the response maps to is not one of
\* the compiled-in structured types, or the header is missing
NotStructured ==
    job.raw.content_type \notin {"application/json", "application/x-postcard"}

\* C17 as stated: for a response with an eligible status whose Content-Type is
\* missing or not a structured type, execute_fetch yields UnsupportedMediaType
\* and neither the MAC verifier nor the deserializer is invoked.
C17_NotStructuredIsUnsupported ==
    (JobDone /\ Responded /\ from_u16(job.raw.code) \in Eligible /\ NotStructured)
        => /\ job.result[1].status = "UnsupportedMediaType"
           /\ job.result[1].calls \cap {"verify", "deserialize"} = {}

\* C17 amended: the same when the body of the response can be read (an empty
\* body included); when reading the body fails the outcome is DecodeFailed.
\* In both cases neither the MAC verifier nor the deserializer is invoked.
C17_NotStructuredReadableIsUnsupported ==
    (JobDone /\ Responded /\ from_u16(job.raw.code) \in Eligible /\ NotStructured)
        => /\ job.result[1].status =
                 (IF job.raw.body.format = "unreadable"
                      THEN "DecodeFailed" ELSE "UnsupportedMediaType")
           /\ job.result[1].response = Nothing
           /\ job.result[1].calls \cap {"verify", "deserialize"} = {}

C17_Witness ==
    /\ JobDone /\ job.raw.code = 200 /\ job.raw.content_type = None
    /\ job.raw.body.format = "empty" /\ job.result[1].status = "UnsupportedMediaType"

\* C18: execute_fetch reads headers and body exactly when the status of the
\* response is in the allow-list; for every other status it returns that
\* status with no parsed value and reads nothing, and the store's value and
\* Messages stay as they were.
C18_DecodeOnlyEligible ==
    (JobDone /\ Responded)
        => /\ (job.result[1].calls # {}) <=> (from_u16(job.raw.code) \in Eligible)
           /\ from_u16(job.raw.code) \notin Eligible
                 => /\ job.result[1].status = from_u16(job.raw.code)
                    /\ job.result[1].response = Nothing
                    /\ job.cb = <<from_u16(job.raw.code)>>
                    /\ StoreValue = job.before.value
                    /\ messages = job.before.messages

C18_Witness ==
    /\ JobDone /\ job.raw.code = 409 /\ job.raw.content_type = "application/json"
    /\ job.raw.body.payload # Nothing /\ job.result[1].status = "Conflict"
    /\ job.before.messages.error /\ messages = job.before.messages

\* C19: when the timeout fires first the operation is aborted exactly once,
\* the callback receives FetchTimeout, the store is left untouched but for
\* the final stop, which makes TransferState Loaded(FetchTimeout) for a load
\* and Stored(FetchTimeout) for a store; when the network operation completes
\* first, abort is never triggered.
C19_TimeoutAbortsOnce ==
    /\ (job.pc \notin {"none", "spawned"} /\ job.raw.net = "timeout")
          => /\ job.result[1].aborts = 1
             /\ job.result[1].status = "FetchTimeout"
             /\ messages = job.before.messages
             /\ StoreValue = job.before.value
             /\ job.pc # "done" => ts = job.before.ts
             /\ JobDone => /\ job.cb = <<"FetchTimeout">>
                            /\ ts = (IF job.load THEN Loaded("FetchTimeout")
                                                  ELSE Stored("FetchTimeout"))
    /\ (job.pc \notin {"none", "spawned"} /\ job.raw.net # "timeout")
          => job.result[1].aborts = 0

C19_Witness ==
    /\ JobDone /\ job.raw.net = "timeout" /\ kind = "collection" /\ job.load
    /\ ts = Loaded("FetchTimeout") /\ job.cb = <<"FetchTimeout">>

\* C20: when a fetch ends with FetchFailed, FetchTimeout or DecodeFailed, the
\* store's Messages, value / collection and paging are exactly what they were
\* before; the callback status and the terminal TransferState carry the
\* failure.
C20_FailuresLeaveStoreUntouched ==
    (JobDone /\ job.status \in {"FetchFailed", "FetchTimeout", "DecodeFailed"})
        => /\ messages = job.before.messages
           /\ StoreValue = job.before.value
           /\ job.cb = <<job.status>>
           /\ ts = (IF job.load THEN Loaded(job.status) ELSE Stored(job.status))

C20_Witness ==
    /\ JobDone /\ job.status = "DecodeFailed" /\ job.raw.body.format = "unreadable"
    /\ job.before.messages.error /\ messages = job.before.messages

(***************************************************************************)
(* C27: reset_error() maps Loaded(x) to Loaded(Ok) and Stored(x) to        *)
(* Stored(Ok) for every status x, leaves Empty, PendingLoad and            *)
(* PendingStore unchanged, and is idempotent: applied to its own result    *)
(* it changes nothing.                                                     *)
(***************************************************************************)
C27_ResetErrorMapsToOk ==
    job.pc = "reset_error" =>
        /\ job.before.v = "Loaded" => ts = Loaded("Ok")
        /\ job.before.v = "Stored" => ts = Stored("Ok")
        /\ job.before.v \in {"Empty", "PendingLoad", "PendingStore"} => ts = job.before
        /\ reset_error(ts) = ts

C27_Witness ==
    /\ job.pc = "reset_error"
    /\ job.before = Stored("Conflict")
    /\ ts = Stored("Ok")

(***************************************************************************)
(* C28: is_success() is true exactly for Ok, Created, NoContent and        *)
(* NotModified; for every other code of the closed set it is false and     *)
(* is_failure() is true; is_failure() is the negation of is_success().     *)
(***************************************************************************)
C28_SuccessSetClosed ==
    job.pc = "classify" =>
        /\ job.status \in StatusCode
        /\ job.success <=> job.status \in {"Ok", "Created", "NoContent", "NotModified"}
        /\ job.failure <=> job.status \notin {"Ok", "Created", "NoContent", "NotModified"}
        /\ job.failure <=> ~job.success

C28_Witness ==
    /\ job.pc = "classify"
    /\ job.status = "NotModified"
    /\ job.success
    /\ ~job.failure

(***************************************************************************)
(* C29: Messages.add(key, kind, text) appends the message at the end of    *)
(* category key, creating the category with that single message when it    *)
(* is absent; every message that existed before is kept, in its order;     *)
(* the categories are enumerated in key order (entity before service),     *)
(* whatever the order in which they were created.                          *)
(***************************************************************************)
C29_AddAppendsAndKeepsOthers ==
    [][ev'.op = "add" =>
        \E key \in MessageKeys, message_type \in MessageTypes :
            LET old == messages.messages
                new == messages'.messages
                enumerated == fmt(messages')
            IN  /\ DOMAIN new = DOMAIN old \cup {key}
                /\ \A k \in DOMAIN old \ {key} : new[k] = old[k]
                /\ new[key] = (IF key \in DOMAIN old THEN old[key] ELSE <<>>)
                                  \o <<Message(message_type, "t", <<>>)>>
                /\ {enumerated[i].key : i \in 1..Len(enumerated)} = DOMAIN new
                /\ \A i \in 1..Len(enumerated) :
                      enumerated[i].messages = new[enumerated[i].key]
                /\ \A i, j \in 1..Len(enumerated) :
                      i < j => enumerated[i].key = ENTITY /\ enumerated[j].key = SERVICE
    ]_vars

C29_Witness ==
    /\ ev.op = "add"
    /\ DOMAIN messages.messages = {ENTITY, SERVICE}
    /\ messages.messages[ENTITY] = <<Message("Error", "t", <<>>)>>
    /\ messages.messages[SERVICE] =
          <<Message("Error", "t", <<>>), Message("Information", "t", <<>>)>>
    /\ fmt(messages)[1].key = ENTITY

C23_SkipCacheAlwaysFetches ==
    [][ev'.op = "load_skip_cache" =>
        /\ ev'.path \in {"started", "start_failed"}
        /\ ev'.path = "started" =>
              (ev'.net /\ ev'.spawned /\ ts' = PendingLoad
                 /\ Len(flights') = Len(flights) + 1)
        /\ ev'.path = "start_failed" => ~ev'.net
    ]_vars

C23_Witness ==
    /\ ev.op = "load_skip_cache"
    /\ ev.net
    /\ ts = PendingLoad
    /\ Len(flights) = 2

(***************************************************************************)
(* C25: EntityStore.store called with a supported media type while the     *)
(* value is None starts no network operation and returns silently:         *)
(* TransferState, Messages and the value are unchanged, no task is         *)
(* spawned and the callback is not invoked.                                *)
(***************************************************************************)
C25_StoreOfNoneIsSilent ==
    [][(kind = "entity" /\ ev'.op = "store" /\ entity = None
          /\ ev'.path # "unsupported") =>
        /\ ev'.path = "no_entity"
        /\ ~ev'.net /\ ~ev'.spawned /\ ev'.cb = <<>>
        /\ ts' = ts /\ messages' = messages /\ entity' = entity
        /\ Len(flights') = Len(flights)
    ]_vars

C25_Witness ==
    /\ kind = "entity"
    /\ ev.op = "store"
    /\ ev.path = "no_entity"
    /\ entity = None
    /\ ts.v = "Stored"
    /\ is_failure(ts.s)

(***************************************************************************)
(* C30 as stated: in every sequence of store operations in which the       *)
(* caller issues no new call while pending() is true and does not          *)
(* invalidate / reset while a fetch is in flight, stop() is invoked only   *)
(* in PendingLoad, PendingStore, Loaded or Stored: the fallback branch     *)
(* that makes Loaded(FetchFailed) out of Empty is never taken.  stop() is  *)
(* invoked by a completing fetch and by the two pre-flight failures.       *)
(***************************************************************************)
C30_StopNeverInEmpty ==
    [][(ev'.op = "complete" \/ ev'.path \in {"start_failed", "unsupported"})
          => ts.v \in {"PendingLoad", "PendingStore", "Loaded", "Stored"}]_vars

(***************************************************************************)
(* C26: a fetch started by execute (no response cell) or by                *)
(* execute_with_response (a cell supplied by the caller) never changes     *)
(* the EntityStore's own value: execute discards an entity carried by the  *)
(* response, execute_with_response writes it into the caller's cell only.  *)
(* Both replace Messages by those of the decoded response and take         *)
(* TransferState from PendingStore to Stored(status), the status also      *)
(* given to the callback.                                                  *)
(***************************************************************************)
C26_ExecuteKeepsOwnValue ==
    (kind = "entity" /\ ~job.load /\ job.cell \in {"none", "ext"}) =>
        /\ entity = job.before.value
        /\ job.cell = "none" => job.ext = None
        /\ job.before.ts = PendingStore
        /\ ~JobDone => ts = PendingStore
        /\ JobDone => (ts = Stored(job.status) /\ job.cb = <<job.status>>)
        /\ (job.pc \in {"applied", "called", "done"} /\ job.result[1].response # Nothing) =>
              LET response == job.result[1].response[1]
              IN  /\ messages.messages = response.messages
                  /\ job.ext = (IF job.cell = "ext" THEN response.entity ELSE None)
        /\ (job.pc \in {"applied", "called", "done"} /\ job.result[1].response = Nothing) =>
              (messages = job.before.messages /\ job.ext = None)

C26_Witness ==
    /\ kind = "entity" /\ JobDone /\ ~job.load
    /\ job.cell = "ext"
    /\ job.ext = "e2"
    /\ entity = "e1"
    /\ ts = Stored("Ok")
    /\ job.before.messages.error /\ ~messages.error

(***************************************************************************)
(* C24: CollectionStore.store attaches a request body if and only if the   *)
(* local collection is non-empty.  With an empty collection the request    *)
(* goes to fetch with no body and no signature header, whatever its media  *)
(* type.  With a non-empty collection (and a structured media type) the    *)
(* body is the serialization of the whole sequence in its order, and the   *)
(* signature header is attached exactly when the signer returns a          *)
(* signature for those bytes.                                              *)
(***************************************************************************)
C24_BodyIffNonEmpty ==
    job.pc = "returned" =>
        /\ job.sent = Nothing <=>
              (collection # <<>> /\ job.request.media_type \notin {"Json", "Postcard"})
        /\ job.sent = Nothing <=> job.path = "unsupported"
        /\ job.sent # Nothing =>
              LET sent == job.sent[1]
              IN  /\ sent.body # Nothing <=> collection # <<>>
                  /\ sent.body = Nothing => sent.signature = Nothing
                  /\ sent.body # Nothing =>
                        /\ sent.body[1].content = collection
                        /\ sent.body[1].format = job.request.media_type
                        /\ sent.signature = sign(job.signer, sent.body[1])
                        /\ sent.signature # Nothing <=>
                              (job.signer = "Mac"
                                 \/ (job.signer = "MacSingle" /\ Len(collection) = 1))

C24_Witness ==
    /\ job.pc = "returned"
    /\ collection = <<"e2", "e1">>
    /\ job.signer = "Mac"
    /\ job.sent # Nothing
    /\ job.sent[1].body = Some(to_bytes("Postcard", <<"e2", "e1">>))
    /\ job.sent[1].signature # Nothing

C31_StopMapsByVariant ==
    job.pc = "stop" =>
        /\ job.before.v \in {"PendingLoad", "Loaded"} => ts = Loaded(job.status)
        /\ job.before.v \in {"PendingStore", "Stored"} => ts = Stored(job.status)
        /\ job.before.v = "Empty" => ts = Loaded("FetchFailed")
        /\ lastStart = "load" => ts.v = "Loaded"
        /\ lastStart = "store" => ts.v = "Stored"

C31_Witness ==
    /\ job.pc = "stop"
    /\ job.before = Stored("Conflict")
    /\ job.status = "Created"
    /\ ts = Stored("Created")
    /\ lastStart = "store"

(***************************************************************************)
(* C32: immediately after a store operation returns with its request       *)
(* started, TransferState is PendingLoad for load, load_skip_cache and     *)
(* load_with_request and PendingStore for store, store_with_response,      *)
(* execute and execute_with_response, whatever is_load flag the caller     *)
(* had set on the request; when the fetch completes (the caller having     *)
(* made no other call meanwhile) TransferState is Loaded(status) or        *)
(* Stored(status) accordingly.                                             *)
(***************************************************************************)
LoadOperations == {"load", "load_skip_cache", "load_with_request"}

StoreOperations == {"store", "store_with_response", "execute", "execute_with_response"}

C32_PendingByOperation ==
    /\ ev.path = "started" =>
          /\ ev.op \in LoadOperations \cup StoreOperations
          /\ open = ev.op
          /\ ts = (IF ev.op \in LoadOperations THEN PendingLoad ELSE PendingStore)
          /\ flights # <<>> /\ flights[Len(flights)].load = (ev.op \in LoadOperations)
    /\ ev.op = "complete" =>
          ts = (IF open \in LoadOperations THEN Loaded(ev.status) ELSE Stored(ev.status))

C32_Witness ==
    /\ ev.op = "complete"
    /\ open = "load_with_request"
    /\ ts = Loaded("Ok")

(***************************************************************************)
(* C33 as stated: for every fetch, the status passed to the result         *)
(* callback equals the status wrapped in the TransferState written by the  *)
(* stop() that follows it.                                                 *)
(***************************************************************************)
C33_CallbackStatusIsStoppedStatus ==
    (ev.cb # <<>> /\ (ev.op = "complete" \/ ev.path = "start_failed"))
        => (ts.v \in {"Loaded", "Stored"} /\ ts.s = ev.cb[1])

(***************************************************************************)
(* C33 amended: for a fetch that was started, the spawned task passes one  *)
(* status to the callback and to the stop() that follows it, and when the  *)
(* store is not Empty at that moment TransferState wraps that status.      *)
(* When the request cannot be started the two differ: the callback is      *)
(* given BadRequest and stop() is given FetchFailed.  When stop() finds    *)
(* the store Empty the state is Loaded(FetchFailed) whatever the status    *)
(* given to the callback.                                                  *)
(***************************************************************************)
C33_StartedFetchReportsOneStatus ==
    /\ ev.op = "complete" =>
          /\ ev.cb = <<ev.status>>
          /\ ev.seen[1].ts.v # "Empty" =>
                (ts.v \in {"Loaded", "Stored"} /\ ts.s = ev.status)
          /\ ev.seen[1].ts.v = "Empty" => ts = Loaded("FetchFailed")
    /\ ev.path = "start_failed" =>
          (ev.cb = <<"BadRequest">> /\ ts.v \in {"Loaded", "Stored"} /\ ts.s = "FetchFailed")

C33_Witness ==
    /\ ev.op = "complete"
    /\ ev.cb = <<"DecodeFailed">>
    /\ ts = Stored("DecodeFailed")

(***************************************************************************)
(* C34 as stated: whenever at least one fetch started through the store    *)
(* is still in flight, pending() is true, under any interleaving of calls, *)
(* completions, invalidate and reset.                                      *)
(***************************************************************************)
C34_InFlightIsPending == flights # <<>> => pending(ts)

(***************************************************************************)
(* C34 amended: pending() is true for the whole flight of a fetch that was *)
(* started with no other fetch in flight, as long as no other call,        *)
(* pre-flight failure, invalidate or reset touched the store since its     *)
(* start.                                                                  *)
(***************************************************************************)
C34_SoloInFlightIsPending ==
    (flights # <<>> /\ race = "solo") =>
        /\ pending(ts)
        /\ Len(flights) = 1
        /\ ts = (IF flights[1].load THEN PendingLoad ELSE PendingStore)

C34_Witness ==
    /\ Len(flights) = 1
    /\ race = "solo"
    /\ ts = PendingStore
    /\ ev.op = "store"
    /\ ev.path = "no_entity"

(***************************************************************************)
(* C35 as stated: a fetch changes the store's value (the entity or the     *)
(* collection) only when its final status is a success code; a response    *)
(* with a failure status never overwrites the value, even when its body    *)
(* decodes to an entity or a collection.                                   *)
(***************************************************************************)
C35_FailureKeepsValue ==
    (job.pc \in {"applied", "called", "done"} /\ is_failure(job.status))
        => Value = (IF kind = "entity" THEN job.before.value ELSE job.before.value[1])

(***************************************************************************)
(* C35 amended: a fetch changes the store's value only when its response   *)
(* was decoded into an envelope that carries an entity or a collection,    *)
(* and then the carried one becomes the value, whatever the status: the    *)
(* success codes Ok and Created and the failure codes BadRequest,          *)
(* Forbidden, InternalServerError, NotFound, PayloadTooBig, RateLimited    *)
(* and Unauthorized alike.  Every other outcome leaves the value as it     *)
(* was.                                                                    *)
(***************************************************************************)
C35_ValueChangesOnlyByDecodedEnvelope ==
    (job.pc \in {"applied", "called", "done"}
        /\ Value # (IF kind = "entity" THEN job.before.value ELSE job.before.value[1]))
        => /\ job.result[1].response # Nothing
           /\ job.status \in {"Ok", "Created", "NoContent", "BadRequest", "Forbidden",
                               "InternalServerError", "NotFound", "PayloadTooBig",
                               "RateLimited", "Unauthorized"}
           /\ kind = "entity" =>
                 (job.cell = "own" /\ job.result[1].response[1].entity # None
                    /\ entity = job.result[1].response[1].entity)
           /\ kind = "collection" =>
                 (job.result[1].response[1].collection # Nothing
                    /\ collection = job.result[1].response[1].collection[1])

C35_Witness ==
    /\ kind = "entity" /\ JobDone
    /\ job.status = "BadRequest"
    /\ job.before.value = "e1"
    /\ entity = "e2"
    /\ ts.s = "BadRequest"

(***************************************************************************)
(* C36. After a successful load, each of EntityStore.invalidate,           *)
(* EntityStore.reset, EntityStore.replace, CollectionStore.invalidate,     *)
(* CollectionStore.reset_to_empty and CollectionStore.reset leaves         *)
(* loaded() false, and a load() that comes next is not skipped as a cache  *)
(* hit.  CollectionStore.reset keeps the transfer state, so the statement  *)
(* fails for it.                                                           *)
(***************************************************************************)
ResetOperations == {"invalidate", "reset", "reset_to_empty", "collection_reset"}

C36_ResetsForgetTheLoad ==
    [][ /\ (loaded(ts) /\ ev'.op \in ResetOperations) => ~loaded(ts')
        /\ (ev.op \in ResetOperations /\ ev'.op = "load") => ev'.path # "hit"
      ]_vars
(***************************************************************************)
(* SpecUpload: one UploadStore.  It owns a TransferState only; messages is *)
(* the Messages handle the caller passes as response_messages and the      *)
(* response entity goes to the caller's cell (store_with_response) or      *)
(* nowhere (store).  do_store hands the request to fetch as it was built.  *)
(* The caller issues no call while pending() is true.                      *)
(***************************************************************************)
UploadStore_store(request, t, m) == fetch(request, t, m, "none")

UploadStore_store_with_response(request, t, m) == fetch(request, t, m, "ext")

UploadStoreCall ==
    \E r \in { UploadStore_store(request, ts, messages) : request \in Requests } :
        SeqCall("upload_store", r)

UploadStoreWithResponse ==
    \E r \in { UploadStore_store_with_response(request, ts, messages) :
                  request \in Requests } :
        SeqCall("upload_store_with_response", r)

\* the spawned task of the fetch in flight runs to its end
UploadComplete ==
    /\ flights # <<>>
    /\ \E applied \in { execute_entity_fetch(result, messages, flights[1].cell, entity) :
                          result \in EntityOutcomes } :
          LET f == flights[1]
              task == fetch_task(ts, [messages |-> messages, value |-> entity], applied)
          IN  /\ ts' = task.ts
              /\ messages' = applied.messages
              /\ flights' = <<>>
              /\ ev' = [NoEv EXCEPT !.op = "complete", !.path = "completed",
                                    !.cb = task.cb, !.load = f.load,
                                    !.status = applied.status,
                                    !.seen = Some(task.seen)]
              /\ completed' = [ verb |-> IF f.load THEN "load" ELSE "store",
                                status |-> applied.status ]
    /\ UNCHANGED <<entity, open, loadedOnce>>
    /\ SeqUntouched

UploadInvalidate ==
    /\ flights = <<>>
    /\ ts' = Empty
    /\ ev' = [NoEv EXCEPT !.op = "invalidate"]
    /\ completed' = NothingCompleted
    /\ UNCHANGED <<messages, entity, flights, open, loadedOnce>>
    /\ SeqUntouched

InitUpload ==
    /\ kind = "upload"
    /\ ts = Empty
    /\ messages = MessagesNew
    /\ entity = None
    /\ collection = <<>>
    /\ paging = PagingDefault
    /\ flights = <<>>
    /\ ev = NoEv
    /\ prevLoad = "none"
    /\ race = "void"
    /\ lastStart = "none"
    /\ open = "none"
    /\ completed = NothingCompleted
    /\ loadedOnce = FALSE
    /\ job = NoJob

NextUpload ==
    \/ UploadStoreCall
    \/ UploadStoreWithResponse
    \/ UploadComplete
    \/ UploadInvalidate

SpecUpload == InitUpload /\ [][NextUpload]_vars

(***************************************************************************)
(* C37. An UploadStore.store / store_with_response call whose fetch        *)
(* completes with a success status takes the UploadStore from PendingStore *)
(* to Stored(status), so that stored() is true and stored_status() is the  *)
(* status, whatever request the builder produced.  A request on which      *)
(* with_is_load(false) was never called keeps is_load = true and ends in   *)
(* Loaded(status).                                                         *)
(***************************************************************************)
C37_UploadEndsStored ==
    [][ (ev'.op = "complete" /\ is_success(ev'.status))
            => /\ ts = PendingStore
               /\ ts' = Stored(ev'.status)
               /\ stored(ts')
               /\ stored_status(ts') = ev'.status
      ]_vars
(***************************************************************************)
(* SpecMerge: a Messages value as a program obtains it without the adding  *)
(* operations: from an inner map, by deserialization, out of a response    *)
(* envelope, and by extend.  job.with is the argument of the last extend,  *)
(* job.self the value it was applied to.                                   *)
(***************************************************************************)
Messages_deserialize(inner) == [error |-> FALSE, messages |-> inner]

EntityResponse_take(response) ==
    [entity |-> response.entity, messages |-> from_inner(response.messages)]

\* the messages of key in map, none when the key is absent
messages_of(map, key) == IF key \in DOMAIN map THEN map[key] ELSE <<>>

extend(self, with) ==
    [ error |-> self.error \/ with.error,
      messages |-> [ key \in DOMAIN self.messages \cup DOMAIN with.messages |->
                       IF key \in DOMAIN self.messages
                           THEN self.messages[key] \o messages_of(with.messages, key)
                           ELSE with.messages[key] ] ]

\* the inner maps a server sends
Inners ==
    {EmptyMap}
        \cup { key :> <<Message(message_type, "w", <<>>)>> :
                 key \in MessageKeys, message_type \in MessageTypes }

\* the Messages values handed to extend
ExtendWith ==
    { from_inner(inner) : inner \in Inners }
        \cup { from_service_error("w"),
               add_with_pars(MessagesNew, ENTITY, "Information", "w", <<>>) }

MergeOnly(op, self, with) ==
    /\ ev' = [NoEv EXCEPT !.op = op]
    /\ job' = [self |-> self, with |-> with]
    /\ UNCHANGED <<kind, ts, entity, collection, paging, flights, prevLoad, race,
                   lastStart, open, completed, loadedOnce>>

MergeFromInner ==
    /\ \E inner \in Inners : messages' = from_inner(inner)
    /\ MergeOnly("from_inner", MessagesNew, MessagesNew)

MergeDeserialize ==
    /\ \E inner \in Inners : messages' = Messages_deserialize(inner)
    /\ MergeOnly("deserialize", MessagesNew, MessagesNew)

MergeTake ==
    /\ \E inner \in Inners, e \in {None, "e1"} :
          messages' = EntityResponse_take(EntityResponse(inner, e)).messages
    /\ MergeOnly("take", MessagesNew, MessagesNew)

MergeExtend ==
    \E with \in ExtendWith :
        /\ \A key \in DOMAIN with.messages :
              Len(messages_of(messages.messages, key)) < MaxMessages
        /\ messages' = extend(messages, with)
        /\ MergeOnly("extend", messages, with)

InitMerge ==
    /\ kind = "messages"
    /\ ts = Empty
    /\ messages = MessagesNew
    /\ entity = None
    /\ collection = <<>>
    /\ paging = PagingDefault
    /\ flights = <<>>
    /\ ev = NoEv
    /\ prevLoad = "none"
    /\ race = "void"
    /\ lastStart = "none"
    /\ open = "none"
    /\ completed = NothingCompleted
    /\ loadedOnce = FALSE
    /\ job = [self |-> MessagesNew, with |-> MessagesNew]

NextMerge ==
    \/ MergeFromInner
    \/ MergeDeserialize
    \/ MergeTake
    \/ MergeExtend

SpecMerge == InitMerge /\ [][NextMerge]_vars

(***************************************************************************)
(* C38. However a Messages value was obtained (from_inner, deserialized    *)
(* from a response, taken out of a response envelope, or merged by         *)
(* extend), error() is true exactly when some contained message has kind   *)
(* Error; and extend(with) appends the messages of with after the existing *)
(* ones of the same category and keeps every other category.  from_inner   *)
(* and the deserializer set the flag to false whatever the content, and    *)
(* extend ORs the two flags, so the first half fails.                      *)
(***************************************************************************)
ExtendAppends ==
    ev.op = "extend" =>
        /\ DOMAIN messages.messages
              = DOMAIN job.self.messages \cup DOMAIN job.with.messages
        /\ \A key \in DOMAIN messages.messages :
              messages.messages[key]
                  = messages_of(job.self.messages, key)
                      \o messages_of(job.with.messages, key)

C38_ErrorIsAggregateHoweverObtained ==
    /\ ev.op \in {"from_inner", "deserialize", "take", "extend"}
          => (messages.error <=> any_error(messages.messages))
    /\ ExtendAppends
(***************************************************************************)
(* MediaType and its textual form (src/interface/mediatype.rs).            *)
(***************************************************************************)
MediaTypes ==
    { "ByteStream", "Cbor", "Css", "Form", "FormMultipart", "Html", "Ico",
      "Javascript", "Jpeg", "Json", "Pdf", "Plain", "Png", "Postcard", "Pwg",
      "Sse", "Svg", "Urf", "Wasm", "Xml", "Xlsx", "Zip", "Zip7" }

as_ref(self) ==
    CASE self = "ByteStream" -> "application/octet-stream"
      [] self = "Cbor" -> "application/cbor"
      [] self = "Css" -> "text/css"
      [] self = "Form" -> "application/x-www-form-urlencoded"
      [] self = "FormMultipart" -> "multipart/form-data"
      [] self = "Html" -> "text/html"
      [] self = "Ico" -> "image/x-icon"
      [] self = "Javascript" -> "application/javascript"
      [] self = "Jpeg" -> "image/jpeg"
      [] self = "Json" -> "application/json"
      [] self = "Pdf" -> "application/pdf"
      [] self = "Plain" -> "text/plain"
      [] self = "Png" -> "image/png"
      [] self = "Postcard" -> "application/x-postcard"
      [] self = "Pwg" -> "image/pwg-raster"
      [] self = "Sse" -> "text/event-stream"
      [] self = "Svg" -> "image/svg+xml"
      [] self = "Urf" -> "image/urf"
      [] self = "Wasm" -> "application/wasm"
      [] self = "Xml" -> "application/xml"
      [] self = "Xlsx"
           -> "application/vnd.openxmlformats-officedocument.spreadsheetml.sheet"
      [] self = "Zip" -> "application/zip"
      [] self = "Zip7" -> "application/x-7z-compressed"

as_str(self) == as_ref(self)

(***************************************************************************)
(* SpecReq: a Request under its builder calls (src/browser/request.rs).    *)
(* job is the request: headers (Option of a list of <<name, value>>),      *)
(* media_type, wants_response.  Headers(request) is what start() sends:    *)
(* Headers::set for each entry in order, so a later entry of the same name *)
(* replaces an earlier one.                                                *)
(***************************************************************************)
MaxHeaders == 5

HEADER_ACCEPT == "Accept"

HEADER_CONTENT_TYPE == "Content-Type"

HEADER_WANTS_RESPONSE == "Wants-Response"

Request_new == [headers |-> Nothing, media_type |-> None, wants_response |-> FALSE]

unwrap_or_default(headers) == IF headers = Nothing THEN <<>> ELSE headers[1]

with_header(self, name, value) ==
    [self EXCEPT !.headers = Some(Append(unwrap_or_default(self.headers), <<name, value>>))]

with_headers(self, headers) == [self EXCEPT !.headers = headers]

with_media_type(self, media_type) ==
    with_header([self EXCEPT !.media_type = media_type],
                HEADER_CONTENT_TYPE, as_str(media_type))

\* an unsupported media type degrades to Json
supported(media_type) ==
    IF media_type \in StructuredMediaTypes THEN media_type ELSE "Json"

encoding(self, media_type) ==
    LET m == supported(media_type)
    IN  with_header(with_media_type([self EXCEPT !.wants_response = FALSE], m),
                    HEADER_ACCEPT, as_str(m))

encoding_with_response(self, media_type) ==
    LET m == supported(media_type)
    IN  with_header(
            with_header(with_media_type([self EXCEPT !.wants_response = TRUE], m),
                        HEADER_ACCEPT, as_str(m)),
            HEADER_WANTS_RESPONSE, "1")

json(self) == encoding(self, "Json")

json_with_response(self) == encoding_with_response(self, "Json")

RECURSIVE set_all(_, _)
set_all(output, headers) ==
    IF headers = <<>>
        THEN output
        ELSE set_all((headers[1][1] :> headers[1][2]) @@ output, Tail(headers))

\* TryFrom<&Request> for Headers
Headers(request) == set_all(EmptyMap, unwrap_or_default(request.headers))

\* the arguments a caller hands to the builder
EncodingArguments == {"Json", "Postcard", "Plain"}

HeaderArguments ==
    { <<HEADER_CONTENT_TYPE, as_str("Plain")>>, <<HEADER_WANTS_RESPONSE, "1">>,
      <<"X-Trace", "1">> }

HeadersArguments == {Nothing, Some(<<>>), Some(<<<<"X-Trace", "1">>>>)}

ReqOnly(op) ==
    /\ ev' = [NoEv EXCEPT !.op = op]
    /\ Len(unwrap_or_default(job'.headers)) <= MaxHeaders
    /\ UNCHANGED <<kind, ts, messages, entity, collection, paging, flights, prevLoad,
                   race, lastStart, open, completed, loadedOnce>>

ReqEncoding ==
    /\ \E media_type \in EncodingArguments : job' = encoding(job, media_type)
    /\ ReqOnly("encoding")

ReqEncodingWithResponse ==
    /\ \E media_type \in EncodingArguments : job' = encoding_with_response(job, media_type)
    /\ ReqOnly("encoding_with_response")

ReqJson ==
    /\ job' = json(job)
    /\ ReqOnly("json")

ReqJsonWithResponse ==
    /\ job' = json_with_response(job)
    /\ ReqOnly("json_with_response")

ReqWithMediaType ==
    /\ \E media_type \in {"Json", "Plain"} : job' = with_media_type(job, media_type)
    /\ ReqOnly("with_media_type")

ReqWithHeader ==
    /\ \E h \in HeaderArguments : job' = with_header(job, h[1], h[2])
    /\ ReqOnly("with_header")

ReqWithHeaders ==
    /\ \E headers \in HeadersArguments : job' = with_headers(job, headers)
    /\ ReqOnly("with_headers")

InitReq ==
    /\ kind = "request"
    /\ ts = Empty
    /\ messages = MessagesNew
    /\ entity = None
    /\ collection = <<>>
    /\ paging = PagingDefault
    /\ flights = <<>>
    /\ ev = NoEv
    /\ prevLoad = "none"
    /\ race = "void"
    /\ lastStart = "none"
    /\ open = "none"
    /\ completed = NothingCompleted
    /\ loadedOnce = FALSE
    /\ job = Request_new

NextReq ==
    \/ ReqEncoding
    \/ ReqEncodingWithResponse
    \/ ReqJson
    \/ ReqJsonWithResponse
    \/ ReqWithMediaType
    \/ ReqWithHeader
    \/ ReqWithHeaders

SpecReq == InitReq /\ [][NextReq]_vars

(***************************************************************************)
(* C39. After any sequence of builder calls (encoding,                     *)
(* encoding_with_response, json, json_with_response, with_media_type,      *)
(* with_header, with_headers), wants_response() is true exactly when the   *)
(* headers sent by start() contain Wants-Response, and media_type() is     *)
(* Some(m) exactly when they contain Content-Type with the value m.        *)
(* encoding after encoding_with_response clears the flag and leaves the    *)
(* header in the list; with_headers drops the headers and keeps the        *)
(* fields.                                                                 *)
(***************************************************************************)
C39_FieldsMatchHeadersSent ==
    /\ job.wants_response <=> HEADER_WANTS_RESPONSE \in DOMAIN Headers(job)
    /\ \A m \in MediaTypes :
          job.media_type = m
              <=> /\ HEADER_CONTENT_TYPE \in DOMAIN Headers(job)
                  /\ Headers(job)[HEADER_CONTENT_TYPE] = as_str(m)
(***************************************************************************)
(* SpecMedia: a MediaType written as text and text read as a MediaType.    *)
(* job.media_type is a MediaType of the program, job.mime a text that was  *)
(* written from it (pc "written") or arrived from outside, e.g. in a       *)
(* Content-Type header (pc "received"), job.parsed the MediaType read back *)
(* from job.mime.                                                          *)
(***************************************************************************)
TextualForms == { as_str(m) : m \in MediaTypes }

\* the texts that arrive from outside
Mimes ==
    TextualForms
        \cup { "application/x-zip-compressed", "text/plain; charset=utf-8",
               "APPLICATION/JSON", "application/x-unknown", "" }

MediaOnly(op) ==
    /\ ev' = [NoEv EXCEPT !.op = op]
    /\ UNCHANGED <<kind, ts, messages, entity, collection, paging, flights, prevLoad,
                   race, lastStart, open, completed, loadedOnce>>

MediaChoose ==
    /\ \E m \in MediaTypes :
          job' = [pc |-> "chosen", media_type |-> m, mime |-> None, parsed |-> None]
    /\ MediaOnly("choose")

MediaAsStr ==
    /\ job.pc = "chosen"
    /\ job' = [job EXCEPT !.pc = "written", !.mime = as_str(job.media_type)]
    /\ MediaOnly("as_str")

MediaReceive ==
    /\ \E mime \in Mimes :
          job' = [job EXCEPT !.pc = "received", !.mime = mime, !.parsed = None]
    /\ MediaOnly("receive")

MediaFrom ==
    /\ job.pc \in {"written", "received"}
    /\ job' = [job EXCEPT !.pc = IF job.pc = "written" THEN "round_trip" ELSE "read",
                          !.parsed = MediaTypeFrom(job.mime)]
    /\ MediaOnly("from")

InitMedia ==
    /\ kind = "media_type"
    /\ ts = Empty
    /\ messages = MessagesNew
    /\ entity = None
    /\ collection = <<>>
    /\ paging = PagingDefault
    /\ flights = <<>>
    /\ ev = NoEv
    /\ prevLoad = "none"
    /\ race = "void"
    /\ lastStart = "none"
    /\ open = "none"
    /\ completed = NothingCompleted
    /\ loadedOnce = FALSE
    /\ job \in { [pc |-> "chosen", media_type |-> m, mime |-> None, parsed |-> None] :
                    m \in MediaTypes }

NextMedia ==
    \/ MediaChoose
    \/ MediaAsStr
    \/ MediaReceive
    \/ MediaFrom

SpecMedia == InitMedia /\ [][NextMedia]_vars

(***************************************************************************)
(* C40. For every MediaType m, MediaType::from(m.as_str()) is m, and every *)
(* text that is not the textual form of a MediaType reads as the default   *)
(* ByteStream.  From<&str> has no arm for "text/plain", so Plain reads     *)
(* back as ByteStream; and "application/x-zip-compressed", the textual     *)
(* form of no MediaType, reads as Zip.                                     *)
(***************************************************************************)
C40_TextualFormRoundTrips ==
    /\ job.pc = "round_trip" => job.parsed = job.media_type
    /\ (job.pc = "read" /\ job.mime \notin TextualForms) => job.parsed = "ByteStream"
====
